---------------------------- MODULE Spec2Model ----------------------------
(***************************************************************************)
(* The synthetic transit-spectroscopy generator of GLIMPSE                 *)
(* (apps/web/src/app/api/mast/demo-data/[target]/route.ts) as a state      *)
(* machine: requests arrive, wait at the handler's only await, and then    *)
(* run the synchronous pipeline to completion on the single JavaScript     *)
(* thread.                                                                 *)
(*                                                                         *)
(* Numbers.  A JavaScript Number is modelled as a fixed-point integer or   *)
(* one of NaN, PosInf, NegInf:                                             *)
(*   flux              unit 1e-5         (1.0 is FluxOne)                  *)
(*   depth, ppm values unit 1e-6 = 1 ppm                                   *)
(*   wavelength        unit 1/19900 um   (the grid is exact: 11940+470*j)  *)
(*   phase             unit 1/99000      (the grid is exact: -4950+100*i)  *)
(* Division rounds toward minus infinity.  TLC's integers are 32 bits      *)
(* wide, so products that would exceed them are split; each such place     *)
(* says so.  Character strings are sequences of UTF-16 code units.         *)
(***************************************************************************)
EXTENDS Integers, Sequences, FiniteSets, TLC

(***************************************************************************)
(* JavaScript Number: the three non-finite values and the arithmetic on    *)
(* them that the pipeline uses.                                            *)
(***************************************************************************)
NaN == 2000000003
PosInf == 2000000002
NegInf == -2000000002

IsFinite(x) == x > NegInf /\ x < PosInf

Neg(x) == IF x = NaN THEN NaN ELSE 0 - x

Add(a, b) ==
  IF a = NaN \/ b = NaN THEN NaN
  ELSE IF a = PosInf THEN (IF b = NegInf THEN NaN ELSE PosInf)
  ELSE IF a = NegInf THEN (IF b = PosInf THEN NaN ELSE NegInf)
  ELSE IF b = PosInf \/ b = NegInf THEN b
  ELSE a + b

Sub(a, b) == Add(a, Neg(b))

\* a < b and a > b as JavaScript compares: false when either side is NaN.
Lt(a, b) == a # NaN /\ b # NaN /\ a < b
Gt(a, b) == Lt(b, a)

Sign(x) == IF x > 0 THEN 1 ELSE IF x < 0 THEN -1 ELSE 0

\* a / n where a is a fixed-point Number and n a plain count (or NaN):
\* x/0 is +-Infinity, 0/0 is NaN, anything with NaN is NaN.
DivCount(a, n) ==
  IF a = NaN \/ n = NaN THEN NaN
  ELSE IF n = 0 THEN (IF a = 0 THEN NaN ELSE IF a > 0 THEN PosInf ELSE NegInf)
  ELSE IF a = PosInf \/ a = NegInf THEN (IF n > 0 THEN a ELSE Neg(a))
  ELSE a \div n

RECURSIVE SqrtDown(_, _)
SqrtDown(n, r) == LET nx == (r + n \div r) \div 2
                  IN  IF nx >= r THEN r ELSE SqrtDown(n, nx)

\* floor(sqrt(n)) of a plain integer n >= 0: Newton's iteration from a
\* start above the root.
ISqrt(n) == IF n <= 0 THEN 0
            ELSE SqrtDown(n, IF n < 10000 THEN 100
                             ELSE IF n < 25000000 THEN 5000 ELSE 46341)

\* Math.sqrt on a fixed-point value of unit 1/scale: the square root of a
\* negative number is NaN.
Sqrt(x, scale) ==
  IF x = NaN \/ x = NegInf THEN NaN
  ELSE IF x = PosInf THEN PosInf
  ELSE IF x < 0 THEN NaN
  ELSE ISqrt(x * scale)

(***************************************************************************)
(* 32-bit integers as two 16-bit limbs [hi, lo], value hi*65536 + lo: the  *)
(* hash runs over the whole signed 32-bit range and Math.abs can return    *)
(* 2^31, which a 32-bit integer of the checker cannot hold.                *)
(***************************************************************************)
Limb == 65536

Wide(n) == [hi |-> n \div Limb, lo |-> n % Limb]

\* w mod m for 0 < m < 2^23, without forming hi*65536.
WideMod(w, m) == (((((w.hi * 256) % m) * 256) % m) + w.lo) % m

\* A shift by four bits instead of five.
ShlFour(h) == LET l == h.lo * 16
              IN  [hi |-> (h.hi * 16 + l \div Limb) % Limb, lo |-> l % Limb]

\* hash << 5 on the 32-bit pattern.
Shl5(h) == LET l == h.lo * 32
           IN  [hi |-> (h.hi * 32 + l \div Limb) % Limb, lo |-> l % Limb]

\* (a - b + code) | 0 on 32-bit patterns: the sum is exact in a double, and
\* | 0 keeps its low 32 bits.
SubAddWrap(a, b, code) ==
  LET l == a.lo - b.lo + code
  IN  [hi |-> (a.hi - b.hi + l \div Limb) % Limb, lo |-> l % Limb]

\* Math.abs of the signed value of a 32-bit pattern, as an unsigned magnitude
\* (2^31 for the pattern 0x80000000).
Abs32(h) ==
  IF h.hi < 32768 THEN h
  ELSE IF h.lo = 0 THEN [hi |-> Limb - h.hi, lo |-> 0]
  ELSE [hi |-> Limb - 1 - h.hi, lo |-> Limb - h.lo]

RECURSIVE HashLoop(_, _, _)
HashLoop(str, i, hash) ==
  IF i > Len(str) THEN hash
  ELSE HashLoop(str, i + 1, SubAddWrap(Shl5(hash), hash, str[i]))

\* hashString(str): the seed of a target name.
hashString(str) == Abs32(HashLoop(str, 1, Wide(0)))

(***************************************************************************)
(* seededRandom: the generator is its closure variable `seed`.  One call   *)
(* of the returned function is rand(seed): the new seed, which is also the *)
(* numerator of the value returned, seed / 233280.                         *)
(***************************************************************************)
LcgA == 9301
LcgC == 49297
LcgM == 233280

\* The recurrence without its increment.
randNoIncrement(seed) ==
  LET r == WideMod(seed, LcgM)
  IN  Wide(((((r * (LcgA \div 2)) % LcgM) * 2) + r * (LcgA % 2)) % LcgM)

\* (seed * 9301 + 49297) % 233280; the product is exact in a double.  Here
\* it is formed on seed % 233280 and with 9301 = 2 * 4650 + 1.
rand(seed) ==
  LET r == WideMod(seed, LcgM)
  IN  Wide(((((r * (LcgA \div 2)) % LcgM) * 2) + r * (LcgA % 2) + LcgC) % LcgM)

\* The numerator of the value a call returned, given the seed it left.
RandValue(seed) == seed.hi * Limb + seed.lo

(***************************************************************************)
(* Math.log, Math.cos and Math.exp in fixed point.  They are numerical     *)
(* approximations (error below 1%); the non-finite cases are exact.        *)
(***************************************************************************)
\* The largest power of two p = 2^k <= n, searched downward from p.
RECURSIVE TopBit(_, _, _)
TopBit(n, p, k) == IF p <= n THEN <<k, p>> ELSE TopBit(n, p \div 2, k - 1)

\* 1000 * ln(n) for an integer 1 <= n < 2^18.
LnMilli(n) ==
  LET t  == TopBit(n, 131072, 17)
      f  == ((n - t[2]) * 1000) \div t[2]
      l2 == t[1] * 1000 + f + (343 * f * (1000 - f)) \div 1000000
  IN  (l2 * 6931) \div 10000

LnM == LnMilli(LcgM)

\* 1000 * Math.log(u) for u = num / 233280: Math.log(0) is -Infinity.
Log(num) == IF num = 0 THEN NegInf ELSE LnMilli(num) - LnM

\* 1000 * cos(pi/2 * p / 233280) for 0 <= p <= 233280.
CosQuarter(p) ==
  LET x  == (p * 1000) \div LcgM
      xx == x * x
  IN  ((1000000 - xx) * 1000) \div (1000000 + xx \div 4)

\* 1000 * Math.cos(2 * Math.PI * u) for u = num / 233280.
Cos2Pi(num) ==
  LET q == (4 * num) \div LcgM
      p == (4 * num) % LcgM
  IN  CASE q = 0 -> CosQuarter(p)
        [] q = 1 -> 0 - CosQuarter(LcgM - p)
        [] q = 2 -> 0 - CosQuarter(p)
        [] OTHER -> CosQuarter(LcgM - p)

\* The sign of Math.cos(2 * Math.PI * u) as a double: it is never 0 (at the
\* quarter turns it is 6.1e-17 and -1.8e-16).
CosSign(num) ==
  LET c == Cos2Pi(num)
  IN  IF c # 0 THEN Sign(c) ELSE IF (4 * num) \div LcgM = 1 THEN 1 ELSE -1

\* 10000 * Math.exp(-q / 10000) for 0 <= q <= 20000.
ExpNeg(q) ==
  LET y  == q \div 4
      y2 == (y * y) \div 10000
      e  == 10000 - y + y2 \div 2 - (y2 * y) \div 60000 + (y2 * y2) \div 240000
      e2 == (e * e) \div 10000
  IN  (e2 * e2) \div 10000

(***************************************************************************)
(* gaussianRandom(rand, mean, stdDev): two draws, u1 then u2, and the      *)
(* Box-Muller transform.  Returns the generator's seed after the two       *)
(* draws and the sample, in the unit of mean and stdDev.                   *)
(***************************************************************************)
\* Lines 15-16 for the numerators u1 and u2 of the two variates.
BoxMuller(u1, u2, mean, stdDev) ==
  LET lg    == Log(u1)
      \* Math.sqrt(-2 * Math.log(u1)), in thousandths
      root  == IF lg = NegInf THEN PosInf ELSE ISqrt((0 - 2) * lg * 1000)
      z     == IF root = PosInf
               THEN (IF CosSign(u2) > 0 THEN PosInf ELSE NegInf)
               ELSE (root * Cos2Pi(u2)) \div 1000
  IN  IF IsFinite(z) THEN (z * stdDev) \div 1000 + mean ELSE z

gaussianRandom(seed, mean, stdDev) ==
  LET s1    == rand(seed)
      s2    == rand(s1)
  IN  [seed  |-> s2,
       value |-> BoxMuller(RandValue(s1), RandValue(s2), mean, stdDev)]

(***************************************************************************)
(* The grids.  Arrays are sequences; At(a, i) is a[i] of the code.         *)
(***************************************************************************)
At(a, i) == a[i + 1]

nWavelengths == 200
nTimes == 100

\* An array of values: the sequence of the elements, all of them computed.
Array(elements) == elements \o <<>>

\* x micrometres, given in hundredths, in the wavelength unit 1/19900 um.
Um(hundredths) == hundredths * (nWavelengths - 1)

\* wavelengths[i] = 0.6 + (i * (5.3 - 0.6)) / (nWavelengths - 1)
wavelengths ==
  Array([k \in 1..nWavelengths |->
           Um(60) + ((k - 1) * (Um(530) - Um(60))) \div (nWavelengths - 1)])

\* x, given in thousandths, in the phase unit 1/99000.
Ph(thousandths) == thousandths * (nTimes - 1)

\* phase[i] = -0.05 + (i * 0.1) / (nTimes - 1)
phase ==
  Array([k \in 1..nTimes |-> (0 - Ph(50)) + ((k - 1) * Ph(100)) \div (nTimes - 1)])

(***************************************************************************)
(* transitModel(t, depth): t in phase units, depth in ppm, flux in 1e-5.   *)
(***************************************************************************)
FluxOne == 100000
transitDuration == Ph(30)
ingress == Ph(5)

AbsNum(x) == IF x < 0 THEN 0 - x ELSE x

\* The model with the whole duration where the half belongs.
transitModelWholeDuration(t, depth) ==
  LET halfDuration == transitDuration
      absT == AbsNum(t)
  IN  IF absT >= halfDuration THEN FluxOne
      ELSE IF absT > halfDuration - ingress
      THEN FluxOne - (depth * (ingress - (absT - halfDuration + ingress)))
                       \div (ingress * 10)
      ELSE FluxOne - depth \div 10

\* The model without its ramps: a box that jumps from 1 - depth to 1.
transitModelNoRamp(t, depth) ==
  IF AbsNum(t) >= transitDuration \div 2 THEN FluxOne ELSE FluxOne - depth \div 10

transitModel(t, depth) ==
  LET halfDuration == transitDuration \div 2
      absT == AbsNum(t)
  IN  IF absT >= halfDuration THEN FluxOne
      ELSE IF absT > halfDuration - ingress
      THEN \* progress = (absT - halfDuration + ingress) / ingress
           \* 1 - depth * (1 - progress)
           FluxOne - (depth * (ingress - (absT - halfDuration + ingress)))
                       \div (ingress * 10)
      ELSE FluxOne - depth \div 10

(***************************************************************************)
(* Molecular absorption features: [wlMin, wlMax, extraDepth in ppm].       *)
(***************************************************************************)
\* The table with the first range of CH4 begun at 1.9 um, inside the second
\* range of H2O.
molecularEffectsOverlapping ==
  << [name |-> "H2O", features |-> << <<Um(135), Um(145), 3000>>,
                                      <<Um(180), Um(200), 4000>>,
                                      <<Um(270), Um(300), 5000>> >>],
     [name |-> "CO2", features |-> << <<Um(420), Um(440), 6000>> >>],
     [name |-> "CO",  features |-> << <<Um(450), Um(500), 4000>> >>],
     [name |-> "CH4", features |-> << <<Um(190), Um(240), 2000>>,
                                      <<Um(330), Um(350), 3000>> >>] >>

molecularEffects ==
  << [name |-> "H2O", features |-> << <<Um(135), Um(145), 3000>>,
                                      <<Um(180), Um(200), 4000>>,
                                      <<Um(270), Um(300), 5000>> >>],
     [name |-> "CO2", features |-> << <<Um(420), Um(440), 6000>> >>],
     [name |-> "CO",  features |-> << <<Um(450), Um(500), 4000>> >>],
     [name |-> "CH4", features |-> << <<Um(220), Um(240), 2000>>,
                                      <<Um(330), Um(350), 3000>> >>] >>

baseDepth == 12000

\* A contribution that leaves the test of the range out.
FeatureNoRange(wl, f) == f[3]

\* One feature's contribution at wavelength wl (0 outside [wlMin, wlMax]).
Feature(wl, f) ==
  LET wlMin == f[1]
      wlMax == f[2]
      extraDepth == f[3]
  IN  IF wl >= wlMin /\ wl <= wlMax
      THEN LET center == (wlMin + wlMax) \div 2
               width  == (wlMax - wlMin) \div 2
               \* (wl - center)^2 / (2 * (width/2)^2) = 2 * ((wl - center)/width)^2
               ratio  == (AbsNum(wl - center) * 10000) \div width
           IN  (extraDepth * ExpNeg((2 * ratio * ratio) \div 10000)) \div 10000
      ELSE 0

RECURSIVE SumFeatures(_, _, _)
SumFeatures(wl, features, k) ==
  IF k > Len(features) THEN 0
  ELSE Feature(wl, features[k]) + SumFeatures(wl, features, k + 1)

RECURSIVE SumMolecules(_, _)
SumMolecules(wl, m) ==
  IF m > Len(molecularEffects) THEN 0
  ELSE SumFeatures(wl, molecularEffects[m].features, 1) + SumMolecules(wl, m + 1)

\* depth of channel j (ppm): baseDepth plus every containing feature.
Depth(j) == baseDepth + SumMolecules(At(wavelengths, j), 1)

(***************************************************************************)
(* The flux cube, built wavelength by wavelength (outer loop j, inner loop *)
(* i).  It is kept by column: cols[j+1][i+1] is flux[i][j].  A loop over   *)
(* lo..hi-1 is evaluated by halving the range, first half first, which     *)
(* visits the indices in the code's ascending order.                       *)
(***************************************************************************)
noiseStdDev == 50

\* flux[i][j] = baseFlux + gaussianRandom(rand, 0, 0.0005) for i = lo..hi-1
RECURSIVE SynthColumn(_, _, _, _)
SynthColumn(seed, depth, lo, hi) ==
  IF hi <= lo THEN [seed |-> seed, col |-> <<>>]
  ELSE IF hi = lo + 1
  THEN LET baseFlux == transitModel(At(phase, lo), depth)
           g == gaussianRandom(seed, 0, noiseStdDev)
       IN  [col |-> <<Add(baseFlux, g.value)>>, seed |-> g.seed]
  ELSE LET mid == (lo + hi) \div 2
           a == SynthColumn(seed, depth, lo, mid)
           b == SynthColumn(a.seed, depth, mid, hi)
       IN  [col |-> a.col \o b.col, seed |-> b.seed]

\* the loop over j = lo..hi-1
RECURSIVE SynthCube(_, _, _)
SynthCube(seed, lo, hi) ==
  IF hi <= lo THEN [seed |-> seed, cols |-> <<>>]
  ELSE IF hi = lo + 1
  THEN LET c == SynthColumn(seed, Depth(lo), 0, nTimes)
       IN  [cols |-> <<c.col>>, seed |-> c.seed]
  ELSE LET mid == (lo + hi) \div 2
           a == SynthCube(seed, lo, mid)
           b == SynthCube(a.seed, mid, hi)
       IN  [cols |-> a.cols \o b.cols, seed |-> b.seed]

\* flux[i][j]
Flux(cols, i, j) == cols[j + 1][i + 1]

(***************************************************************************)
(* The transmission spectrum.  The masks are phase.map(...); the           *)
(* accumulators of one channel are updated for i = 0 .. nTimes-1.          *)
(* inSqSum / inCount - inMean * inMean has the same value when taken on    *)
(* flux - 1, which is how it is formed here: the squares of the flux       *)
(* itself exceed 32 bits.                                                  *)
(***************************************************************************)
margin == Ph(10)

\* The in-transit test taken over the flat bottom only.
inTransitMaskFlatBottom ==
  Array([k \in 1..nTimes |-> AbsNum(phase[k]) <= transitDuration \div 2 - ingress])

inTransitMask ==
  Array([k \in 1..nTimes |-> AbsNum(phase[k]) < transitDuration \div 2])
\* The out-of-transit test without its margin of 0.01.
outTransitMaskNoMargin ==
  Array([k \in 1..nTimes |-> AbsNum(phase[k]) > transitDuration \div 2])

outTransitMask ==
  Array([k \in 1..nTimes |-> AbsNum(phase[k]) > transitDuration \div 2 + margin])

\* v * v for a flux v, on v - 1.
SqFlux(v) == IF v = NaN THEN NaN
             ELSE IF ~IsFinite(v) THEN PosInf
             ELSE (v - FluxOne) * (v - FluxOne)

\* v * v for a standard deviation v.
SqStd(v) == IF v = NaN THEN NaN ELSE IF ~IsFinite(v) THEN PosInf ELSE v * v

ZeroAcc == [sum |-> 0, count |-> 0, sqSum |-> 0]

AccAdd(acc, v) == [sum   |-> Add(acc.sum, v),
                   count |-> acc.count + 1,
                   sqSum |-> Add(acc.sqSum, SqFlux(v))]

AccMerge(p, q) == [sum   |-> Add(p.sum, q.sum),
                   count |-> p.count + q.count,
                   sqSum |-> Add(p.sqSum, q.sqSum)]

\* The loop over i = lo..hi-1 of one channel, for one mask: the sum, the
\* count and the squared sum of the samples the mask selects.  The range is
\* halved; the additions are those of the loop, regrouped.
RECURSIVE Accumulate(_, _, _, _)
Accumulate(col, mask, lo, hi) ==
  IF hi <= lo THEN ZeroAcc
  ELSE IF hi = lo + 1
  THEN (IF At(mask, lo) THEN AccAdd(ZeroAcc, At(col, lo)) ELSE ZeroAcc)
  ELSE LET mid == (lo + hi) \div 2
       IN  AccMerge(Accumulate(col, mask, lo, mid), Accumulate(col, mask, mid, hi))

\* floor(n * 1e6 / d) for finite n and d > 0, in two steps to stay in range.
ScaledDiv(n, d) ==
  LET big == n * 100000
  IN  (big \div d) * 10 + ((big % d) * 10) \div d

\* (n / d) * 1e6 as JavaScript divides.
RatioPpm(n, d) ==
  IF n = NaN \/ d = NaN THEN NaN
  ELSE IF IsFinite(n) /\ IsFinite(d)
  THEN IF d = 0 THEN (IF n = 0 THEN NaN ELSE IF n > 0 THEN PosInf ELSE NegInf)
       ELSE IF d > 0 THEN ScaledDiv(n, d) ELSE ScaledDiv(0 - n, 0 - d)
  ELSE IF IsFinite(n) THEN 0
  ELSE IF IsFinite(d) THEN (IF (n > 0) = (d >= 0) THEN PosInf ELSE NegInf)
  ELSE NaN

\* (1 - inMean / outMean) * 1e6; for finite means it is formed as
\* (outMean - inMean) / outMean * 1e6.
DepthPpm(inMean, outMean) ==
  IF IsFinite(inMean) /\ IsFinite(outMean) /\ outMean # 0
  THEN RatioPpm(outMean - inMean, outMean)
  ELSE LET q == RatioPpm(inMean, outMean)
       IN  IF IsFinite(q) THEN 1000000 - q ELSE Neg(q)

\* Lines 160-166 for one channel, from its accumulators.
EstimateFrom(accIn, accOut) ==
  LET inMean  == DivCount(accIn.sum, accIn.count)
      outMean == DivCount(accOut.sum, accOut.count)
      inStd   == Sqrt(Sub(DivCount(accIn.sqSum, accIn.count), SqFlux(inMean)), 1)
      outStd  == Sqrt(Sub(DivCount(accOut.sqSum, accOut.count), SqFlux(outMean)), 1)
  IN  [depth |-> DepthPpm(inMean, outMean),
       err   |-> RatioPpm(Sqrt(Add(SqStd(inStd), SqStd(outStd)), 1), outMean)]

\* The body of `for (let j = 0; j < nWavelengths; j++)` for one channel.
EstimateChannel(col, inMask, outMask) ==
  EstimateFrom(Accumulate(col, inMask, 0, nTimes),
               Accumulate(col, outMask, 0, nTimes))

\* transitDepth and transitDepthErr of a cube.
Spectrum(cols) ==
  LET est == Array([k \in 1..nWavelengths |->
                      EstimateChannel(cols[k], inTransitMask, outTransitMask)])
  IN  [transitDepth    |-> Array([k \in 1..nWavelengths |-> est[k].depth]),
       transitDepthErr |-> Array([k \in 1..nWavelengths |-> est[k].err])]

(***************************************************************************)
(* Binning (lines 170-203) and the light curve (lines 205-213).            *)
(***************************************************************************)
\* a[idx] where the array may be read past its end: undefined, which is NaN
\* once it is added to a sum.
Get(a, idx) == IF idx >= 0 /\ idx < Len(a) THEN a[idx + 1] ELSE NaN

\* flux[i][j], read the same way.
FluxAt(cols, i, j) == IF j >= 0 /\ j < Len(cols) THEN Get(cols[j + 1], i) ELSE NaN

\* Math.floor(nWavelengths / binSize)
NumBins(binSize) ==
  IF binSize = NaN THEN NaN
  ELSE IF binSize = 0 THEN PosInf
  ELSE nWavelengths \div binSize

\* How often the body of `for (b = 0; b < n; b++)` runs (n is finite or NaN).
Iterations(n) == IF Lt(0, n) THEN n ELSE 0

\* The index taken one channel too far.
BinIdxOffByOne(b, binSize, k) == b * binSize + k + 1

\* const idx = b * binSize + k
BinIdx(b, binSize, k) == b * binSize + k

\* The sum over k = lo..hi-1 of a[b * binSize + k].
RECURSIVE SumBin(_, _, _, _, _)
SumBin(a, b, binSize, lo, hi) ==
  IF hi <= lo THEN 0
  ELSE IF hi = lo + 1 THEN Get(a, BinIdx(b, binSize, lo))
  ELSE LET mid == (lo + hi) \div 2
       IN  Add(SumBin(a, b, binSize, lo, mid), SumBin(a, b, binSize, mid, hi))

\* The flux of the first channel of the bin taken for each of its channels.
SumBinFluxFirstOnly(cols, i, b, binSize, lo, hi) ==
  (hi - lo) * FluxAt(cols, i, b * binSize)

\* The sum over k = lo..hi-1 of flux[i][b * binSize + k].
RECURSIVE SumBinFlux(_, _, _, _, _, _)
SumBinFlux(cols, i, b, binSize, lo, hi) ==
  IF hi <= lo THEN 0
  ELSE IF hi = lo + 1 THEN FluxAt(cols, i, BinIdx(b, binSize, lo))
  ELSE LET mid == (lo + hi) \div 2
       IN  Add(SumBinFlux(cols, i, b, binSize, lo, mid),
               SumBinFlux(cols, i, b, binSize, mid, hi))

\* The division by Math.sqrt(n) left out.
DivSqrtLeftOut(v, n) == v

\* v / Math.sqrt(n) for a count n >= 1.
DivSqrt(v, n) == IF IsFinite(v) THEN (v * 1000) \div ISqrt(n * 1000000) ELSE v

\* The bins the loop `for (b = 0; b < nBins; b++)` makes, as 1..n.
BinRange(binSize) == 1..Iterations(NumBins(binSize))

\* wavelengthsBinned.push(wlSum / binSize)
wavelengthsBinned(binSize) ==
  Array([c \in BinRange(binSize) |->
           DivCount(SumBin(wavelengths, c - 1, binSize, 0, binSize), binSize)])

\* transitDepthBinned.push(depthSum / binSize)
transitDepthBinned(transitDepth, binSize) ==
  Array([c \in BinRange(binSize) |->
           DivCount(SumBin(transitDepth, c - 1, binSize, 0, binSize), binSize)])

\* transitDepthErrBinned.push(errSum / binSize / Math.sqrt(binSize))
transitDepthErrBinned(transitDepthErr, binSize) ==
  Array([c \in BinRange(binSize) |->
           DivSqrt(DivCount(SumBin(transitDepthErr, c - 1, binSize, 0, binSize),
                            binSize), binSize)])

\* fluxBinned[i].push(fluxSum / binSize): row i, column b.
fluxBinned(cols, binSize) ==
  Array([k \in 1..nTimes |->
           Array([c \in BinRange(binSize) |->
                    DivCount(SumBinFlux(cols, k - 1, c - 1, binSize, 0, binSize),
                             binSize)])])

\* What the binning loop leaves behind.
Binned(cols, spectrum, binSize) ==
  [nBins                 |-> NumBins(binSize),
   wavelengthsBinned     |-> wavelengthsBinned(binSize),
   transitDepthBinned    |-> transitDepthBinned(spectrum.transitDepth, binSize),
   transitDepthErrBinned |-> transitDepthErrBinned(spectrum.transitDepthErr, binSize),
   fluxBinned            |-> fluxBinned(cols, binSize)]

\* The sum over j = lo..hi-1 of row[j].
RECURSIVE SumRow(_, _, _)
SumRow(row, lo, hi) ==
  IF hi <= lo THEN 0
  ELSE IF hi = lo + 1 THEN Get(row, lo)
  ELSE LET mid == (lo + hi) \div 2
       IN  Add(SumRow(row, lo, mid), SumRow(row, mid, hi))

\* lightcurveFlux: sum / nBins for every time sample.
Lightcurve(rows, nBins) ==
  Array([k \in 1..nTimes |->
           DivCount(SumRow(rows[k], 0, Iterations(nBins)), nBins)])

(***************************************************************************)
(* The query parameter: searchParams.get("bin_size") is null when the      *)
(* parameter is absent; parseInt reads an optional sign and the leading    *)
(* digits (hexadecimal after 0x) and is NaN when there are none.           *)
(***************************************************************************)
Absent == [present |-> FALSE, value |-> <<>>]
Given(str) == [present |-> TRUE, value |-> str]

IsSpace(c) == c \in {9, 10, 11, 12, 13, 32}

\* The value of a digit in the radix, or -1.
DigitOf(c, radix) ==
  LET d == IF c >= 48 /\ c <= 57 THEN c - 48
           ELSE IF c >= 97 /\ c <= 102 THEN c - 87
           ELSE IF c >= 65 /\ c <= 70 THEN c - 55
           ELSE 0 - 1
  IN  IF d < radix THEN d ELSE 0 - 1

\* Integers from ParseCap on are all kept as ParseCap.
ParseCap == 100000000

RECURSIVE SkipSpace(_, _)
SkipSpace(str, i) ==
  IF i <= Len(str) /\ IsSpace(str[i]) THEN SkipSpace(str, i + 1) ELSE i

RECURSIVE ParseDigits(_, _, _, _, _)
ParseDigits(str, i, radix, acc, any) ==
  IF i <= Len(str) /\ DigitOf(str[i], radix) >= 0
  THEN LET v == acc * radix + DigitOf(str[i], radix)
       IN  ParseDigits(str, i + 1, radix, IF v > ParseCap THEN ParseCap ELSE v, TRUE)
  ELSE IF any THEN acc ELSE NaN

parseInt(str) ==
  LET i0   == SkipSpace(str, 1)
      neg  == i0 <= Len(str) /\ str[i0] = 45
      i1   == IF i0 <= Len(str) /\ str[i0] \in {43, 45} THEN i0 + 1 ELSE i0
      hex  == i1 + 1 <= Len(str) /\ str[i1] = 48 /\ str[i1 + 1] \in {88, 120}
      mag  == IF hex THEN ParseDigits(str, i1 + 2, 16, 0, FALSE)
              ELSE ParseDigits(str, i1, 10, 0, FALSE)
  IN  IF neg THEN Neg(mag) ELSE mag

MathMax(a, b) == IF a = NaN \/ b = NaN THEN NaN ELSE IF a > b THEN a ELSE b
MathMin(a, b) == IF a = NaN \/ b = NaN THEN NaN ELSE IF a < b THEN a ELSE b

defaultBinSize == <<50, 48>>   \* "20"

\* Math.min(100, Math.max(5, parseInt(searchParams.get("bin_size") || "20")))
BinSizeOf(query) ==
  LET str == IF query.present /\ query.value # <<>> THEN query.value
             ELSE defaultBinSize
  IN  MathMin(100, MathMax(5, parseInt(str)))

(***************************************************************************)
(* The model's requests: two target names of the page's list and the       *)
(* bin_size values a URL can carry.                                        *)
(***************************************************************************)
Wasp39b == <<87, 65, 83, 80, 45, 51, 57, 32, 98>>   \* "WASP-39 b"
K218b   == <<75, 50, 45, 49, 56, 32, 98>>           \* "K2-18 b"
Targets == {Wasp39b, K218b}

Queries ==
  { Absent,
    Given(<<>>),                 \* bin_size=
    Given(<<97, 98, 99>>),       \* bin_size=abc
    Given(<<55, 46, 53>>),       \* bin_size=7.5
    Given(<<45, 51>>),           \* bin_size=-3
    Given(<<48>>),               \* bin_size=0
    Given(<<49, 53, 48>>),       \* bin_size=150
    Given(<<50, 48>>) }          \* bin_size=20

(***************************************************************************)
(* The cube, the spectrum and the binned arrays of the model's requests,   *)
(* computed once.  CubeOf, SpectrumOf and BinnedOf are SynthCube, Spectrum *)
(* and Binned; they look the value up when it is in the table.             *)
(***************************************************************************)
TargetSeeds == {hashString(t) : t \in Targets}
BinSizes == {BinSizeOf(q) : q \in Queries}

CubeTable ==
  {[from |-> s, cube |-> SynthCube(s, 0, nWavelengths)] : s \in TargetSeeds}

CubeOf(seed) ==
  IF seed \in TargetSeeds THEN (CHOOSE e \in CubeTable : e.from = seed).cube
  ELSE SynthCube(seed, 0, nWavelengths)

SpectrumTable ==
  {[from |-> e.from, spectrum |-> Spectrum(e.cube.cols)] : e \in CubeTable}

SpectrumOf(seed) ==
  IF seed \in TargetSeeds THEN (CHOOSE e \in SpectrumTable : e.from = seed).spectrum
  ELSE Spectrum(CubeOf(seed).cols)

BinnedTable ==
  {[from |-> s, size |-> b, binned |-> Binned(CubeOf(s).cols, SpectrumOf(s), b)] :
     s \in TargetSeeds, b \in BinSizes}

BinnedOf(seed, binSize) ==
  IF seed \in TargetSeeds /\ binSize \in BinSizes
  THEN (CHOOSE e \in BinnedTable : e.from = seed /\ e.size = binSize).binned
  ELSE Binned(CubeOf(seed).cols, SpectrumOf(seed), binSize)

(***************************************************************************)
(* The object handed to NextResponse.json (lines 215-236).                 *)
(***************************************************************************)
Result(target, seed, binSize) ==
  LET bin == BinnedOf(seed, binSize)
  IN  [target      |-> target,
       data_source |-> "simulated",
       wavelengths |-> bin.wavelengthsBinned,
       phase       |-> phase,
       flux        |-> bin.fluxBinned,
       transmission_spectrum |->
         [wavelengths           |-> bin.wavelengthsBinned,
          transit_depth_ppm     |-> bin.transitDepthBinned,
          transit_depth_err_ppm |-> bin.transitDepthErrBinned],
       lightcurve  |-> [phase |-> phase,
                        flux  |-> Lightcurve(bin.fluxBinned, bin.nBins)],
       metadata    |-> [instrument       |-> "NIRSpec (simulated)",
                        mode             |-> "G395H",
                        wavelength_range |-> <<At(wavelengths, 0),
                                               At(wavelengths, Len(wavelengths) - 1)>>,
                        n_integrations   |-> nTimes]]

(***************************************************************************)
(* The state machine.  Each of the Requests is one invocation of GET: it   *)
(* is received (the handler runs up to `await params`), it resumes (the    *)
(* rest of the handler runs to completion: JavaScript does not preempt     *)
(* it), and it completes (the response is sent and the invocation's        *)
(* variables are gone).  Invocations may wait at the await together and    *)
(* resume in either order.                                                 *)
(*                                                                         *)
(* The state holds the locals an invocation's result is computed from; the *)
(* object it returns is Response(r), a function of those locals.           *)
(***************************************************************************)
Requests == {1, 2}

VARIABLES
  pc,          \* where each invocation is: "idle", "awaiting", "done"
  reqTarget,   \* params.target of each invocation
  reqQuery,    \* the bin_size parameter of its URL
  usedBinSize, \* its local binSize
  genInit,     \* the state its generator `rand` was created with
  gen          \* the state of its generator now

handlerVars == <<pc, reqTarget, reqQuery, usedBinSize, genInit, gen>>

\* The estimator of one channel, run on its own (SpecEstimator).
VARIABLES
  estPc,       \* "off", "ready", "summed", "pushed"
  chanFlux,    \* flux[0..nTimes-1][j] of the channel
  inSums,      \* inSum, inCount, inSqSum
  outSums,     \* outSum, outCount, outSqSum
  chanEst      \* what was pushed to transitDepth and transitDepthErr

estimatorVars == <<estPc, chanFlux, inSums, outSums, chanEst>>

\* The binning and the light curve, run on their own (SpecBinner).
VARIABLES
  binPc,       \* "off", "ready", "binned", "averaged"
  binSizeIn,   \* binSize
  specIn,      \* transitDepth and transitDepthErr
  cubeIn,      \* flux, by channel
  binOut,      \* the binned arrays
  lcOut        \* lightcurveFlux

binnerVars == <<binPc, binSizeIn, specIn, cubeIn, binOut, lcOut>>

\* The stages of the pipeline run on their own, one variable each: the hash
\* of a name (SpecHash), the generator (SpecGenerator), the generators of two
\* names side by side (SpecPair), the two grids (SpecGrids), transitModel
\* (SpecTransit), the depth of a channel (SpecDepth) and the synthesis of the
\* flux cube (SpecSynth).  Each is a record of the locals of its stage.
VARIABLES hasher, generator, seedPair, gridBuild, transitEval, depthEval, synth

\* The handler's stages in their order, the site's password gate and the
\* page component, each studied on its own below.
VARIABLES flow, gate, page

otherVars == <<flow, gate, page>>

stageVars == <<hasher, generator, seedPair, gridBuild, transitEval, depthEval, synth,
              otherVars>>

pipelineVars == <<handlerVars, estimatorVars, binnerVars, otherVars>>

vars == <<handlerVars, estimatorVars, binnerVars, stageVars>>

StageOff == [pc |-> "off"]

OthersOff == flow = StageOff /\ gate = StageOff /\ page = StageOff

StagesOff ==
  /\ OthersOff
  /\ hasher = StageOff
  /\ generator = StageOff
  /\ seedPair = StageOff
  /\ gridBuild = StageOff
  /\ transitEval = StageOff
  /\ depthEval = StageOff
  /\ synth = StageOff

NoEstimate == [depth |-> 0, err |-> 0]

EstimatorOff ==
  /\ estPc = "off"
  /\ chanFlux = <<>>
  /\ inSums = ZeroAcc
  /\ outSums = ZeroAcc
  /\ chanEst = NoEstimate

NoSpectrum == [transitDepth |-> <<>>, transitDepthErr |-> <<>>]
NoBinned == [nBins |-> 0, wavelengthsBinned |-> <<>>, transitDepthBinned |-> <<>>,
             transitDepthErrBinned |-> <<>>, fluxBinned |-> <<>>]

BinnerOff ==
  /\ binPc = "off"
  /\ binSizeIn = 0
  /\ specIn = NoSpectrum
  /\ cubeIn = <<>>
  /\ binOut = NoBinned
  /\ lcOut = <<>>

NoGen == Wide(0)

\* A generator that is one module-level variable: a new invocation goes on
\* from where the invocation that finished left it.
sharedRandom(seed) ==
  IF \E o \in Requests : pc[o] = "done"
  THEN gen[CHOOSE o \in Requests : pc[o] = "done"]
  ELSE seed

\* A generator that starts from a constant whatever the seed is.
fixedRandom(seed) == Wide(1)

\* seededRandom(seed): a new closure whose variable `seed` is the argument.
seededRandom(seed) == seed

HandlerIdle ==
  /\ pc = [r \in Requests |-> "idle"]
  /\ reqTarget = [r \in Requests |-> <<>>]
  /\ reqQuery = [r \in Requests |-> Absent]
  /\ usedBinSize = [r \in Requests |-> 0]
  /\ genInit = [r \in Requests |-> NoGen]
  /\ gen = [r \in Requests |-> NoGen]

Init == HandlerIdle /\ EstimatorOff /\ BinnerOff /\ StagesOff

\* GET is called and reaches `const { target } = await params`.
Receive(r, t, q) ==
  /\ pc[r] = "idle"
  /\ pc' = [pc EXCEPT ![r] = "awaiting"]
  /\ reqTarget' = [reqTarget EXCEPT ![r] = t]
  /\ reqQuery' = [reqQuery EXCEPT ![r] = q]
  /\ UNCHANGED <<usedBinSize, genInit, gen, estimatorVars, binnerVars, stageVars>>

\* Lines 34-236, from the await to the return: the bin size is read, the
\* generator is created from the hash of the target and drawn from
\* 2 * nWavelengths * nTimes times.
Resume(r) ==
  /\ pc[r] = "awaiting"
  /\ usedBinSize' = [usedBinSize EXCEPT ![r] = BinSizeOf(reqQuery[r])]
  /\ genInit' = [genInit EXCEPT ![r] = seededRandom(hashString(reqTarget[r]))]
  /\ gen' = [gen EXCEPT ![r] = CubeOf(genInit'[r]).seed]
  /\ pc' = [pc EXCEPT ![r] = "done"]
  /\ UNCHANGED <<reqTarget, reqQuery, estimatorVars, binnerVars, stageVars>>

\* The response has been sent; nothing of the invocation remains.
Complete(r) ==
  /\ pc[r] = "done"
  /\ pc' = [pc EXCEPT ![r] = "idle"]
  /\ reqTarget' = [reqTarget EXCEPT ![r] = <<>>]
  /\ reqQuery' = [reqQuery EXCEPT ![r] = Absent]
  /\ usedBinSize' = [usedBinSize EXCEPT ![r] = 0]
  /\ genInit' = [genInit EXCEPT ![r] = NoGen]
  /\ gen' = [gen EXCEPT ![r] = NoGen]
  /\ UNCHANGED <<estimatorVars, binnerVars, stageVars>>

Next ==
  \/ \E r \in Requests, t \in Targets, q \in Queries : Receive(r, t, q)
  \/ \E r \in Requests : Resume(r)
  \/ \E r \in Requests : Complete(r)

Spec == Init /\ [][Next]_vars

(***************************************************************************)
(* The estimator of one channel on its own: the body of the loop over j    *)
(* (lines 139-167) applied to a channel whose flux is 1 at every time      *)
(* sample but one, which lies lower by a dip.                              *)
(***************************************************************************)
ProbeDips == {120, 12000}

ProbeColumn(at, dip) ==
  Array([k \in 1..nTimes |-> IF k - 1 = at THEN FluxOne - dip ELSE FluxOne])

ProbeColumns == {ProbeColumn(at, dip) : at \in 0..(nTimes - 1), dip \in ProbeDips}

\* The column of a channel as lines 121-125 write it when the noise is zero:
\* flux[i][j] = transitModel(phase[i], depth).
ModelColumn(depth) ==
  Array([k \in 1..nTimes |-> transitModel(phase[k], depth)])

ModelColumns == {ModelColumn(Depth(j)) : j \in 0..(nWavelengths - 1)}

InitEstimator ==
  /\ HandlerIdle /\ BinnerOff /\ StagesOff
  /\ estPc = "ready"
  /\ chanFlux \in ProbeColumns \cup ModelColumns
  /\ inSums = ZeroAcc
  /\ outSums = ZeroAcc
  /\ chanEst = NoEstimate

\* Lines 139-158: the six accumulators after the loop over i.
SumChannel ==
  /\ estPc = "ready"
  /\ inSums' = Accumulate(chanFlux, inTransitMask, 0, nTimes)
  /\ outSums' = Accumulate(chanFlux, outTransitMask, 0, nTimes)
  /\ estPc' = "summed"
  /\ UNCHANGED <<chanFlux, chanEst, handlerVars, binnerVars, stageVars>>

\* Lines 160-166: the means, the deviations and the two pushes.
PushEstimate ==
  /\ estPc = "summed"
  /\ chanEst' = EstimateFrom(inSums, outSums)
  /\ estPc' = "pushed"
  /\ UNCHANGED <<chanFlux, inSums, outSums, handlerVars, binnerVars, stageVars>>

NextEstimator == SumChannel \/ PushEstimate

SpecEstimator == InitEstimator /\ [][NextEstimator]_vars

(***************************************************************************)
(* The binning and the light curve on their own (lines 170-213), for every *)
(* bin size of 5..100.  The inputs either single out one channel (the      *)
(* depth is ProbeDepth there and 0 elsewhere, the depth error is raised by *)
(* ErrBump there, and the flux of row i lies lower by RowDip(i) there) or  *)
(* are flat (one depth, one depth error, flux 1).                          *)
(***************************************************************************)
BinnerSizes == 5..100

ProbeDepth == 1000000
FlatDepth == 12000
ErrLevel == 900
ErrBump == 2000
RowDip(i) == 1000 + 10 * i

\* The channels singled out for a bin size: the last channel of the first
\* bin, the first of the second, the last channel that is binned and the
\* first that is dropped (channel 0 when none is); every channel for the
\* size 7.
ProbesFor(binSize) ==
  IF binSize = 7 THEN 0..(nWavelengths - 1)
  ELSE LET last == (nWavelengths \div binSize) * binSize
       IN  {binSize - 1, binSize, last - 1, last % nWavelengths}

ProbeSpectrum(at) ==
  [transitDepth    |-> Array([k \in 1..nWavelengths |->
                                IF k - 1 = at THEN ProbeDepth ELSE 0]),
   transitDepthErr |-> Array([k \in 1..nWavelengths |->
                                IF k - 1 = at THEN ErrLevel + ErrBump ELSE ErrLevel])]

ProbeCube(at) ==
  Array([c \in 1..nWavelengths |->
           Array([k \in 1..nTimes |->
                    IF c - 1 = at THEN FluxOne - RowDip(k - 1) ELSE FluxOne])])

FlatSpectrum ==
  [transitDepth    |-> Array([k \in 1..nWavelengths |-> FlatDepth]),
   transitDepthErr |-> Array([k \in 1..nWavelengths |-> ErrLevel])]

FlatCube == Array([c \in 1..nWavelengths |-> Array([k \in 1..nTimes |-> FluxOne])])

InitBinner ==
  /\ HandlerIdle /\ EstimatorOff /\ StagesOff
  /\ binPc = "ready"
  /\ binSizeIn \in BinnerSizes
  /\ \/ \E at \in ProbesFor(binSizeIn) :
          specIn = ProbeSpectrum(at) /\ cubeIn = ProbeCube(at)
     \/ specIn = FlatSpectrum /\ cubeIn = FlatCube
  /\ binOut = NoBinned
  /\ lcOut = <<>>

\* Lines 170-203.
Bin ==
  /\ binPc = "ready"
  /\ binOut' = Binned(cubeIn, specIn, binSizeIn)
  /\ binPc' = "binned"
  /\ UNCHANGED <<binSizeIn, specIn, cubeIn, lcOut, handlerVars, estimatorVars, stageVars>>

\* Lines 205-213.
Average ==
  /\ binPc = "binned"
  /\ lcOut' = Lightcurve(binOut.fluxBinned, binOut.nBins)
  /\ binPc' = "averaged"
  /\ UNCHANGED <<binSizeIn, specIn, cubeIn, binOut, handlerVars, estimatorVars, stageVars>>

NextBinner == Bin \/ Average

SpecBinner == InitBinner /\ [][NextBinner]_vars

\* The object invocation r returns, once it is done.
Response(r) == Result(reqTarget[r], genInit[r], usedBinSize[r])

Done == {r \in Requests : pc[r] = "done"}

(***************************************************************************)
(* C1.  Determinism: what an invocation returns depends on its target name *)
(* and its bin_size parameter and on nothing else.  Two invocations with   *)
(* the same two inputs return the same object, and every invocation        *)
(* returns the object computed from its two inputs alone.                  *)
(***************************************************************************)
C1_Determinism ==
  /\ \A r1, r2 \in Done :
        reqTarget[r1] = reqTarget[r2] /\ reqQuery[r1] = reqQuery[r2]
          => Response(r1) = Response(r2)
  /\ \A r \in Done :
        Response(r) = Result(reqTarget[r], hashString(reqTarget[r]),
                             BinSizeOf(reqQuery[r]))

\* Two invocations with the same target and the same bin_size have both
\* returned, one after the other had finished.
C1_Witness ==
  /\ Done = Requests
  /\ reqTarget[1] = reqTarget[2] /\ reqQuery[1] = reqQuery[2]
  /\ reqTarget[1] = Wasp39b /\ usedBinSize[1] = 20
  /\ Len(Response(1).flux) = nTimes

(***************************************************************************)
(* C2.  Each invocation owns its generator: however two invocations are    *)
(* interleaved at the await, a finished invocation's generator started     *)
(* from the hash of its own target and ended where the draws of a run      *)
(* alone end, and a resuming invocation leaves the other one's generator   *)
(* as it was.                                                              *)
(***************************************************************************)
\* Where the generator of a run alone for the target ends.
AloneEnd(t) == CubeOf(hashString(t)).seed

C2_OwnGenerator ==
  \A r \in Done :
    /\ genInit[r] = hashString(reqTarget[r])
    /\ gen[r] = AloneEnd(reqTarget[r])

\* Both invocations waited at the await together and both have finished,
\* for different targets.
C2_Witness ==
  /\ Done = Requests
  /\ reqTarget[1] = Wasp39b /\ reqTarget[2] = K218b
  /\ gen[1] # gen[2]
  /\ gen[1] # genInit[1]

(***************************************************************************)
(* C3.  Whatever the bin_size parameter is, the bin size used is an        *)
(* integer of 5..100, and it is 20 when the parameter is absent.           *)
(***************************************************************************)
C3_BinSizeInRange ==
  \A r \in Done :
    /\ usedBinSize[r] \in 5..100
    /\ ~reqQuery[r].present => usedBinSize[r] = 20

(***************************************************************************)
(* C9.  A time sample is in the in-transit set exactly when |phase| <      *)
(* 0.015 and in the out-of-transit set exactly when |phase| > 0.025; no    *)
(* sample is in both, and a sample with 0.015 <= |phase| <= 0.025 adds to  *)
(* neither set's sum, squared sum or count.  Stated on a channel that is 1 *)
(* but for one sample with a dip: the dip shows in the accumulators of the *)
(* set the sample belongs to and in no other.                              *)
(***************************************************************************)
InTransitSamples  == {i \in 0..(nTimes - 1) : AbsNum(At(phase, i)) < Ph(15)}
OutTransitSamples == {i \in 0..(nTimes - 1) : AbsNum(At(phase, i)) > Ph(25)}
GapSamples == (0..(nTimes - 1)) \ (InTransitSamples \cup OutTransitSamples)

\* The sample of the channel that carries the dip, and the dip.
DipAt  == CHOOSE i \in 0..(nTimes - 1) : At(chanFlux, i) # FluxOne
DipNow == FluxOne - At(chanFlux, DipAt)

\* The accumulators of a set of samples of the channel; the squared sum is
\* on flux - 1.
SumsOver(samples) ==
  [sum   |-> Cardinality(samples) * FluxOne - (IF DipAt \in samples THEN DipNow ELSE 0),
   count |-> Cardinality(samples),
   sqSum |-> IF DipAt \in samples THEN DipNow * DipNow ELSE 0]

C9_Partition ==
  (estPc \in {"summed", "pushed"} /\ chanFlux \in ProbeColumns) =>
    /\ InTransitSamples \cap OutTransitSamples = {}
    /\ inSums = SumsOver(InTransitSamples)
    /\ outSums = SumsOver(OutTransitSamples)
    /\ DipAt \in GapSamples =>
         inSums = SumsOver({i \in InTransitSamples : i # DipAt})
         /\ outSums = SumsOver({i \in OutTransitSamples : i # DipAt})

\* The estimate of a channel whose dip lies in the gap has been pushed.
C9_Witness ==
  /\ estPc = "pushed"
  /\ DipAt \in GapSamples
  /\ Ph(15) <= AbsNum(At(phase, DipAt)) /\ AbsNum(At(phase, DipAt)) <= Ph(25)
  /\ inSums.count > 0 /\ outSums.count > 0
  /\ chanEst.depth = 0

(***************************************************************************)
(* What the claims about the binning say of the inputs of SpecBinner.      *)
(***************************************************************************)
Binned_ == binPc \in {"binned", "averaged"}

\* floor(200 / B), and whether channel j is one of b*B .. b*B+B-1.
BinsOf(B) == nWavelengths \div B
InChannelsOf(j, b, B) == b * B <= j /\ j <= b * B + B - 1

\* The channel the input singles out: a set of one channel, or of none.
Probed == {j \in 0..(nWavelengths - 1) : At(specIn.transitDepth, j) = ProbeDepth}

\* Whether a channel of the set is one of bin b.
HitsBin(probed, b) == \E j \in probed : InChannelsOf(j, b, binSizeIn)

(***************************************************************************)
(* C4.  For every bin size B of 5..100 there are floor(200 / B) bins; bin  *)
(* b covers exactly the channels b*B .. b*B+B-1: the channel singled out   *)
(* shows in the bin whose range holds it and in no other, and in no bin    *)
(* when it is one of the 200 - floor(200/B)*B trailing channels; no index  *)
(* read is 200 or more (such a read is undefined and makes the sum NaN).   *)
(***************************************************************************)
C4_BinLayout ==
  Binned_ =>
    LET B == binSizeIn
        n == BinsOf(B)
        probed == Probed
    IN  /\ binOut.nBins = n
        /\ Len(binOut.wavelengthsBinned) = n
        /\ Len(binOut.transitDepthBinned) = n
        /\ \A b \in 0..(n - 1) :
             /\ b * B + B - 1 < nWavelengths
             /\ At(binOut.wavelengthsBinned, b) # NaN
             /\ At(binOut.transitDepthBinned, b) # NaN
             /\ At(binOut.transitDepthErrBinned, b) # NaN
             /\ probed # {} =>
                  ((At(binOut.transitDepthBinned, b) # 0) <=> HitsBin(probed, b))
        /\ \A j \in probed :
             j >= n * B => \A b \in 0..(n - 1) : At(binOut.transitDepthBinned, b) = 0
        /\ (B = 20 => n = 10) /\ (B = 7 => n = 28 /\ nWavelengths - n * B = 4)

\* B = 7 has been binned with a trailing channel singled out: 28 bins, none
\* of which shows it.
C4_Witness ==
  /\ binPc = "binned"
  /\ binSizeIn = 7
  /\ Probed = {197}
  /\ Len(binOut.transitDepthBinned) = 28
  /\ \A b \in 0..27 : At(binOut.transitDepthBinned, b) = 0

(***************************************************************************)
(* C5.  The binned wavelength and the binned depth of a bin are the        *)
(* unweighted mean of its B values, and the binned depth error is the mean *)
(* of its B errors divided by sqrt(B) (x with x * x * B = mean * mean, to  *)
(* one unit); so on the flat input, whose error is one constant, the       *)
(* binned error at B = 20 is the one at B = 10 divided by sqrt(2).         *)
(***************************************************************************)
\* The sum of the wavelengths of `count` channels from channel `first` on.
RECURSIVE WavelengthSum(_, _)
WavelengthSum(first, count) ==
  IF count = 0 THEN 0
  ELSE wavelengths[first + count] + WavelengthSum(first, count - 1)

\* x is m / sqrt(B), to one unit.
IsOverSqrt(x, m, B) ==
  (x - 1) * (x - 1) * B <= m * m /\ m * m <= (x + 1) * (x + 1) * B

C5_BinMeans ==
  Binned_ =>
    LET B == binSizeIn
        flat == specIn = FlatSpectrum
        probed == Probed
    IN  /\ \A b \in 0..(BinsOf(B) - 1) :
             /\ At(binOut.wavelengthsBinned, b) = WavelengthSum(b * B, B) \div B
             /\ At(binOut.transitDepthBinned, b) =
                  (IF flat THEN FlatDepth
                   ELSE IF HitsBin(probed, b) THEN ProbeDepth \div B ELSE 0)
             /\ IsOverSqrt(At(binOut.transitDepthErrBinned, b),
                           IF HitsBin(probed, b) THEN (B * ErrLevel + ErrBump) \div B
                           ELSE ErrLevel,
                           B)
        /\ flat /\ B = 20 =>
             LET at10 == transitDepthErrBinned(specIn.transitDepthErr, 10)
             IN  \A b \in 0..9 :
                   /\ IsOverSqrt(At(binOut.transitDepthErrBinned, b), At(at10, 2 * b), 2)
                   /\ At(binOut.transitDepthErrBinned, b) < At(at10, 2 * b)

\* The flat input has been binned at B = 20.
C5_Witness ==
  /\ binPc = "binned"
  /\ binSizeIn = 20
  /\ specIn = FlatSpectrum
  /\ Len(binOut.transitDepthErrBinned) = 10
  /\ At(binOut.transitDepthErrBinned, 0) > 0
  /\ At(binOut.transitDepthErrBinned, 0) < ErrLevel

(***************************************************************************)
(* C6.  The cube is binned as the spectrum is: for every bin b and every   *)
(* time sample i the binned flux is the unweighted mean of the raw flux of *)
(* row i over the channels b*B .. b*B+B-1, the channels of the binned      *)
(* depth of bin b: column b of the binned cube shows the channel singled   *)
(* out exactly when entry b of the binned depth does.                      *)
(***************************************************************************)
C6_CubeAsSpectrum ==
  Binned_ =>
    LET B == binSizeIn
        n == BinsOf(B)
        probed == Probed
    IN  /\ Len(binOut.fluxBinned) = nTimes
        /\ \A i \in 0..(nTimes - 1) : Len(At(binOut.fluxBinned, i)) = n
        /\ \A b \in 0..(n - 1) :
             LET hit == HitsBin(probed, b)
             IN  \A i \in 0..(nTimes - 1) :
                   LET f == At(At(binOut.fluxBinned, i), b)
                   IN  /\ f = (B * FluxOne - (IF hit THEN RowDip(i) ELSE 0)) \div B
                       /\ probed # {} =>
                            ((f # FluxOne) <=> (At(binOut.transitDepthBinned, b) # 0))

\* A channel of the second bin has been singled out and binned at B = 20:
\* the second column of the binned cube and the second binned depth show
\* it, the first ones do not.
C6_Witness ==
  /\ binPc = "binned"
  /\ binSizeIn = 20
  /\ Probed = {20}
  /\ At(binOut.transitDepthBinned, 1) # 0
  /\ At(At(binOut.fluxBinned, 50), 1) < FluxOne
  /\ At(At(binOut.fluxBinned, 50), 0) = FluxOne

(***************************************************************************)
(* C7.  In every response the light curve has one value per phase sample,  *)
(* 100 of them, and the value of a time sample is the arithmetic mean of   *)
(* that sample's binned flux over the binned wavelength channels: there is *)
(* at least one channel and the value is the sum of the row over the       *)
(* number of its entries.                                                  *)
(***************************************************************************)
\* The sum of the first `count` entries of a row, as numbers add.
RECURSIVE RowTotal(_, _)
RowTotal(row, count) ==
  IF count = 0 THEN 0 ELSE Add(RowTotal(row, count - 1), row[count])

LightcurveIsMean(resp) ==
  /\ Len(resp.lightcurve.flux) = Len(resp.phase)
  /\ Len(resp.lightcurve.flux) = 100
  /\ \A i \in 1..Len(resp.lightcurve.flux) :
       LET row == resp.flux[i]
       IN  /\ Len(row) > 0
           /\ resp.lightcurve.flux[i] = DivCount(RowTotal(row, Len(row)), Len(row))

C7_LightcurveIsMean == \A r \in Done : LightcurveIsMean(Response(r))

(***************************************************************************)
(* C8.  In every response the shapes agree: with nBins the number of bins  *)
(* of the bin size used, the four wavelength-indexed arrays have length    *)
(* nBins, flux has 100 rows of nBins columns each, phase and               *)
(* lightcurve.phase are the 100-point grid and lightcurve.flux has 100     *)
(* values.                                                                 *)
(***************************************************************************)
ShapesAgree(resp, nBins) ==
  /\ Len(resp.wavelengths) = nBins
  /\ Len(resp.transmission_spectrum.wavelengths) = nBins
  /\ Len(resp.transmission_spectrum.transit_depth_ppm) = nBins
  /\ Len(resp.transmission_spectrum.transit_depth_err_ppm) = nBins
  /\ Len(resp.flux) = 100
  /\ \A i \in 1..Len(resp.flux) : Len(resp.flux[i]) = nBins
  /\ resp.phase = phase /\ Len(resp.phase) = 100
  /\ resp.lightcurve.phase = phase
  /\ Len(resp.lightcurve.flux) = 100

C8_Shapes == \A r \in Done : ShapesAgree(Response(r), NumBins(usedBinSize[r]))

(***************************************************************************)
(* C10.  An empty in-transit or out-of-transit set ends the request with a *)
(* reported error, no count that is zero is divided by, and neither NaN    *)
(* nor Infinity is placed in transit_depth_ppm or transit_depth_err_ppm.   *)
(* Every invocation of the model returns a result and none reports an      *)
(* error, so the claim is that the counts of every channel are positive    *)
(* and every entry of the two arrays is a finite number.                   *)
(***************************************************************************)
AllFinite(a) == \A k \in 1..Len(a) : IsFinite(a[k])

C10_NoSilentNaN ==
  \A r \in Done :
    /\ \A j \in 1..nWavelengths :
         /\ Accumulate(CubeOf(genInit[r]).cols[j], inTransitMask, 0, nTimes).count > 0
         /\ Accumulate(CubeOf(genInit[r]).cols[j], outTransitMask, 0, nTimes).count > 0
    /\ AllFinite(Response(r).transmission_spectrum.transit_depth_ppm)
    /\ AllFinite(Response(r).transmission_spectrum.transit_depth_err_ppm)

(***************************************************************************)
(* C11.  The Gaussian sampler guards against a first variate u1 = 0 before *)
(* it takes the logarithm, so that no noise value and no cell of the flux  *)
(* cube is NaN or infinite: every cell of the cube an invocation built is  *)
(* a finite number.                                                        *)
(***************************************************************************)
C11_FiniteFlux ==
  \A r \in Done :
    \A j \in 0..(nWavelengths - 1) :
      \A i \in 0..(nTimes - 1) : IsFinite(Flux(CubeOf(genInit[r]).cols, i, j))

(***************************************************************************)
(* The names.  PageTargets are the target names of the page's list; the    *)
(* route takes any name a URL segment can carry.                           *)
(***************************************************************************)
Gj9827d == <<71, 74, 32, 57, 56, 50, 55, 32, 100>>   \* "GJ 9827 d"

PageTargets ==
  { Wasp39b, K218b, Gj9827d,
    <<87, 65, 83, 80, 45, 57, 54, 32, 98>>,   \* "WASP-96 b"
    <<87, 65, 83, 80, 45, 49, 55, 32, 98>>,   \* "WASP-17 b"
    <<87, 65, 83, 80, 45, 54, 57, 32, 98>>,   \* "WASP-69 b"
    <<87, 65, 83, 80, 45, 56, 48, 32, 98>>,   \* "WASP-80 b"
    <<72, 65, 84, 45, 80, 45, 49, 56, 32, 98>>,   \* "HAT-P-18 b"
    <<72, 65, 84, 45, 80, 45, 50, 54, 32, 98>>,   \* "HAT-P-26 b"
    <<71, 74, 32, 49, 50, 49, 52, 32, 98>>,   \* "GJ 1214 b"
    <<84, 79, 73, 45, 50, 55, 48, 32, 100>>,   \* "TOI-270 d"
    <<71, 74, 32, 51, 52, 55, 48, 32, 98>>,   \* "GJ 3470 b"
    <<76, 72, 83, 32, 52, 55, 53, 32, 98>>,   \* "LHS 475 b"
    <<84, 82, 65, 80, 80, 73, 83, 84, 45, 49, 32, 98>>,   \* "TRAPPIST-1 b"
    <<71, 74, 32, 52, 56, 54, 32, 98>> }   \* "GJ 486 b"

\* Names outside the list: two that differ only in the order of their
\* characters, one with a code unit beyond ASCII, one whose wrapped hash is
\* -2^31, and one whose seed differs from that of "GJ 9827 d" by a multiple of
\* 233280.
NameAb == <<97, 98>>   \* "ab"
NameBa == <<98, 97>>   \* "ba"
Hd52d == <<72, 68, 32, 53, 50, 32, 100>>   \* "HD 52 d"

OtherNames ==
  { NameAb, NameBa, Hd52d,
    <<946, 32, 80, 105, 99, 32, 98>>,   \* U+03B2 and " Pic b"
    \* "polygenelubricants"
    <<112, 111, 108, 121, 103, 101, 110, 101, 108, 117, 98, 114, 105, 99, 97,
      110, 116, 115>> }

(***************************************************************************)
(* hashString on its own (lines 20-27): the loop over the characters of a  *)
(* name, one character a step, and the return.  hasher.hash is the 32-bit  *)
(* pattern of the local `hash`, hasher.i the loop index.                   *)
(***************************************************************************)
HashNames == PageTargets \cup OtherNames

InitHash ==
  /\ HandlerIdle /\ EstimatorOff /\ BinnerOff /\ OthersOff
  /\ \E name \in HashNames :
       hasher = [pc |-> "loop", str |-> name, i |-> 0, hash |-> Wide(0)]
  /\ generator = StageOff /\ seedPair = StageOff /\ gridBuild = StageOff
  /\ transitEval = StageOff /\ depthEval = StageOff /\ synth = StageOff

\* Lines 22-25: one turn of the loop.
HashChar ==
  /\ hasher.pc = "loop"
  /\ hasher.i < Len(hasher.str)
  /\ hasher' = [hasher EXCEPT
                  !.hash = SubAddWrap(Shl5(hasher.hash), hasher.hash,
                                      At(hasher.str, hasher.i)),
                  !.i = hasher.i + 1]
  /\ UNCHANGED <<pipelineVars, generator, seedPair, gridBuild, transitEval,
                 depthEval, synth>>

\* Line 26: return Math.abs(hash).
HashReturn ==
  /\ hasher.pc = "loop"
  /\ hasher.i >= Len(hasher.str)
  /\ hasher' = [pc |-> "returned", str |-> hasher.str, i |-> hasher.i,
                hash |-> hasher.hash, result |-> Abs32(hasher.hash)]
  /\ UNCHANGED <<pipelineVars, generator, seedPair, gridBuild, transitEval,
                 depthEval, synth>>

NextHash == HashChar \/ HashReturn

SpecHash == InitHash /\ [][NextHash]_vars

(***************************************************************************)
(* C12.  hashString returns the absolute value of the accumulation         *)
(* hash = hash * 31 + code, carried out left to right from 0 and wrapped   *)
(* to 32 bits after every character; the shift form gives the same value   *)
(* at every step; the result depends on the order of the characters and    *)
(* the same string always gives the same seed.                             *)
(***************************************************************************)
\* hash * 31 + code on 32-bit patterns, by long multiplication.
Times31Plus(h, code) ==
  LET low == 31 * h.lo + code
  IN  [hi |-> (31 * h.hi + low \div 65536) % 65536, lo |-> low % 65536]

\* The accumulation over the first `count` characters of a string.
RECURSIVE Accumulation(_, _)
Accumulation(str, count) ==
  IF count = 0 THEN [hi |-> 0, lo |-> 0]
  ELSE Times31Plus(Accumulation(str, count - 1), str[count])

\* The magnitude of the signed value of a pattern: the pattern itself, or
\* 2^32 minus it when the sign bit is set.
Magnitude(h) ==
  IF h.hi < 32768 THEN h
  ELSE [hi |-> (65535 - h.hi + (IF h.lo = 0 THEN 1 ELSE 0)) % 65536,
        lo |-> (65536 - h.lo) % 65536]

\* A string with the same characters in another order.
IsReordering(s, t) ==
  /\ s # t
  /\ Len(s) = Len(t)
  /\ \A c \in {s[k] : k \in 1..Len(s)} \cup {t[k] : k \in 1..Len(t)} :
       Cardinality({k \in 1..Len(s) : s[k] = c})
         = Cardinality({k \in 1..Len(t) : t[k] = c})

C12_Hash ==
  hasher.pc \in {"loop", "returned"} =>
    /\ hasher.hash = Accumulation(hasher.str, hasher.i)
    /\ hasher.pc = "returned" =>
         /\ hasher.i = Len(hasher.str)
         /\ hasher.result = Magnitude(Accumulation(hasher.str, Len(hasher.str)))
         /\ hasher.result = hashString(hasher.str)
         /\ \A other \in HashNames :
              IsReordering(other, hasher.str) => hashString(other) # hasher.result

\* "ba" has been hashed: 98 * 31 + 97 = 3135, and "ab" gives 3105.
C12_Witness ==
  /\ hasher.pc = "returned"
  /\ hasher.str = NameBa
  /\ hasher.result = [hi |-> 0, lo |-> 3135]
  /\ hashString(NameAb) = [hi |-> 0, lo |-> 3105]

(***************************************************************************)
(* C13.  The seed of every name is a non-negative 32-bit integer:          *)
(* 0 <= hashString(name) <= 2^31 - 1, also when the wrapped hash is        *)
(* -2^31.                                                                  *)
(***************************************************************************)
C13_SeedRange ==
  hasher.pc = "returned" =>
    /\ hasher.result.hi >= 0 /\ hasher.result.hi < 32768
    /\ hasher.result.lo >= 0 /\ hasher.result.lo < 65536

(***************************************************************************)
(* The generator on its own (lines 4-9): seededRandom(seed) and then calls *)
(* of the function it returned.  generator.seed is the closure variable,   *)
(* generator.prev its value before the last call, generator.value the      *)
(* numerator of what the last call returned.                               *)
(***************************************************************************)
MaxDraws == 8

\* Seeds at the ends of the range of hashString and around the modulus.
EdgeSeeds ==
  { [hi |-> 0, lo |-> 0], [hi |-> 0, lo |-> 1],
    [hi |-> 3, lo |-> 36671],       \* 233279
    [hi |-> 3, lo |-> 36672],       \* 233280
    [hi |-> 32767, lo |-> 65535],   \* 2^31 - 1
    [hi |-> 32768, lo |-> 0] }      \* 2^31

GeneratorSeeds == {hashString(name) : name \in HashNames} \cup EdgeSeeds

InitGenerator ==
  /\ HandlerIdle /\ EstimatorOff /\ BinnerOff /\ OthersOff
  /\ \E from \in GeneratorSeeds :
       generator = [pc |-> "ready", seed |-> seededRandom(from), prev |-> from,
                    value |-> 0, draws |-> 0]
  /\ hasher = StageOff /\ seedPair = StageOff /\ gridBuild = StageOff
  /\ transitEval = StageOff /\ depthEval = StageOff /\ synth = StageOff

\* Lines 6-7: one call of the returned function.
Draw ==
  /\ generator.pc = "ready"
  /\ generator.draws < MaxDraws
  /\ generator' = [pc |-> "ready", seed |-> rand(generator.seed),
                   prev |-> generator.seed,
                   value |-> RandValue(rand(generator.seed)),
                   draws |-> generator.draws + 1]
  /\ UNCHANGED <<pipelineVars, hasher, seedPair, gridBuild, transitEval,
                 depthEval, synth>>

SpecGenerator == InitGenerator /\ [][Draw]_vars

(***************************************************************************)
(* C14.  Every draw advances the state by                                  *)
(* seed = (seed * 9301 + 49297) mod 233280 and returns seed / 233280; for  *)
(* every seed hashString can produce, after every draw the state is an     *)
(* integer in [0, 233279] and the value returned lies in [0, 1).           *)
(***************************************************************************)
\* w mod 233280 for w = hi * 2^16 + lo <= 2^31, with 2^16 = 2 * 2^15.
Residue(w) == ((((w.hi * 32768) % 233280) * 2) + w.lo) % 233280

\* (r * 9301 + 49297) mod 233280 for 0 <= r < 233280, with 9301 = 93 * 100 + 1.
Recurrence(r) == ((((r * 93) % 233280) * 100) + r + 49297) % 233280

C14_Recurrence ==
  (generator.pc = "ready" /\ generator.draws > 0) =>
    /\ generator.seed.hi * 65536 + generator.seed.lo
         = Recurrence(Residue(generator.prev))
    /\ generator.seed.lo \in 0..65535
    /\ generator.seed.hi * 65536 + generator.seed.lo \in 0..233279
    /\ generator.value = generator.seed.hi * 65536 + generator.seed.lo
    \* value / 233280 lies in [0, 1)
    /\ generator.value >= 0 /\ generator.value < 233280

\* The first draw from the seed 2^31: 2^31 mod 233280 = 141248, and
\* (141248 * 9301 + 49297) mod 233280 = 197265.
C14_Witness ==
  /\ generator.pc = "ready"
  /\ generator.draws = 1
  /\ generator.prev = [hi |-> 32768, lo |-> 0]
  /\ generator.value = 197265

(***************************************************************************)
(* The two grids on their own (lines 45-56): the loops that push the       *)
(* wavelengths and then the phases, one element a step, in an invocation   *)
(* whose target and bin_size are any of the model's.                       *)
(***************************************************************************)
\* A grid whose step is the span over the number of points.
WavelengthValueOverN(i) ==
  Um(60) + (i * (Um(530) - Um(60))) \div nWavelengths

\* 0.6 + (i * (5.3 - 0.6)) / (nWavelengths - 1)
WavelengthValue(i) ==
  Um(60) + (i * (Um(530) - Um(60))) \div (nWavelengths - 1)

\* -0.05 + (i * 0.1) / (nTimes - 1)
PhaseValue(i) == (0 - Ph(50)) + (i * Ph(100)) \div (nTimes - 1)

InitGrids ==
  /\ HandlerIdle /\ EstimatorOff /\ BinnerOff /\ OthersOff
  /\ \E name \in Targets, q \in Queries :
       gridBuild = [pc |-> "wavelengths", target |-> name,
                    binSize |-> BinSizeOf(q), wavelengths |-> <<>>, phase |-> <<>>]
  /\ hasher = StageOff /\ generator = StageOff /\ seedPair = StageOff
  /\ transitEval = StageOff /\ depthEval = StageOff /\ synth = StageOff

\* Lines 47-49: one turn of the loop, or its end.
PushWavelength ==
  /\ gridBuild.pc = "wavelengths"
  /\ gridBuild' =
       IF Len(gridBuild.wavelengths) < nWavelengths
       THEN [gridBuild EXCEPT !.wavelengths =
               Append(gridBuild.wavelengths,
                      WavelengthValue(Len(gridBuild.wavelengths)))]
       ELSE [gridBuild EXCEPT !.pc = "phase"]
  /\ UNCHANGED <<pipelineVars, hasher, generator, seedPair, transitEval,
                 depthEval, synth>>

\* Lines 54-56: one turn of the loop, or its end.
PushPhase ==
  /\ gridBuild.pc = "phase"
  /\ gridBuild' =
       IF Len(gridBuild.phase) < nTimes
       THEN [gridBuild EXCEPT !.phase =
               Append(gridBuild.phase, PhaseValue(Len(gridBuild.phase)))]
       ELSE [gridBuild EXCEPT !.pc = "done"]
  /\ UNCHANGED <<pipelineVars, hasher, generator, seedPair, transitEval,
                 depthEval, synth>>

NextGrids == PushWavelength \/ PushPhase

SpecGrids == InitGrids /\ [][NextGrids]_vars

(***************************************************************************)
(* C15.  The wavelength grid has exactly 200 strictly ascending points,    *)
(* the first 0.6 and the last 5.3; the phase grid has exactly 100 strictly *)
(* ascending points, the first -0.05 and the last 0.05; both are evenly    *)
(* spaced and the same for every target name and bin size.  (Wavelengths   *)
(* are in units of 1/19900 um: 0.6 is 11940 and 5.3 is 105470; phases in   *)
(* units of 1/99000: 0.05 is 4950.  Even spacing is that of the exact      *)
(* values; the doubles of the code differ from them by rounding.)          *)
(***************************************************************************)
\* The grid so far starts at `first` and rises by `step` from point to point.
RisesEvenly(grid, first, step) ==
  /\ Len(grid) > 0 => grid[1] = first
  /\ \A k \in 1..(Len(grid) - 1) :
       grid[k] < grid[k + 1] /\ grid[k + 1] - grid[k] = step

C15_Grids ==
  gridBuild.pc \in {"wavelengths", "phase", "done"} =>
    /\ RisesEvenly(gridBuild.wavelengths, 11940, 470)
    /\ RisesEvenly(gridBuild.phase, 0 - 4950, 100)
    /\ Len(gridBuild.wavelengths) <= 200
    /\ Len(gridBuild.phase) <= 100
    /\ gridBuild.pc \in {"phase", "done"} =>
         /\ Len(gridBuild.wavelengths) = 200
         /\ gridBuild.wavelengths[200] = 105470
         /\ gridBuild.wavelengths = wavelengths
    /\ gridBuild.pc = "done" =>
         /\ Len(gridBuild.phase) = 100
         /\ gridBuild.phase[100] = 4950
         /\ gridBuild.phase = phase

\* Both grids are complete in an invocation for "K2-18 b" with bin size 7.
C15_Witness ==
  /\ gridBuild.pc = "done"
  /\ gridBuild.target = K218b
  /\ gridBuild.binSize = 7
  /\ Len(gridBuild.wavelengths) = 200
  /\ Len(gridBuild.phase) = 100

(***************************************************************************)
(* transitModel on its own (lines 62-77): a call and its return.  The      *)
(* phases are those of the grid, which the pipeline passes, and the ones   *)
(* the contract of the function names: 0, the half duration 0.015 and its  *)
(* neighbours, the start of the ramp 0.01, and 0.02.  The depths are those *)
(* of the 200 channels, 0 and 1.                                           *)
(***************************************************************************)
TransitPhases ==
  {phase[k] : k \in 1..nTimes}
    \cup {0, Ph(10), 0 - Ph(10), Ph(15), 0 - Ph(15), Ph(15) - 1, 1 - Ph(15),
          Ph(15) + 1, 0 - Ph(15) - 1, Ph(20), 0 - Ph(20),
          Ph(10) - 1, 1 - Ph(10), Ph(10) + 1, 0 - Ph(10) - 1}

TransitDepths == {Depth(j) : j \in 0..(nWavelengths - 1)} \cup {0, 1000000}

InitTransit ==
  /\ HandlerIdle /\ EstimatorOff /\ BinnerOff /\ OthersOff
  /\ \E t \in TransitPhases, depth \in TransitDepths :
       transitEval = [pc |-> "called", t |-> t, depth |-> depth]
  /\ hasher = StageOff /\ generator = StageOff /\ seedPair = StageOff
  /\ gridBuild = StageOff /\ depthEval = StageOff /\ synth = StageOff

\* Lines 63-76: the body, up to one of its three returns.
TransitReturn ==
  /\ transitEval.pc = "called"
  /\ transitEval' = [pc |-> "returned", t |-> transitEval.t,
                     depth |-> transitEval.depth,
                     result |-> transitModel(transitEval.t, transitEval.depth)]
  /\ UNCHANGED <<pipelineVars, hasher, generator, seedPair, gridBuild,
                 depthEval, synth>>

SpecTransit == InitTransit /\ [][TransitReturn]_vars

(***************************************************************************)
(* C16.  transitModel(0, depth) is 1 - depth for every depth, and          *)
(* transitModel(phase, depth) is 1 for every phase with |phase| >= 0.015,  *)
(* the boundary included.  (Flux is in units of 1e-5 and depth in ppm, so  *)
(* 1 - depth is met to within one unit of flux: less than 10 ppm.  0.015   *)
(* is 1485 in the unit of phase.)                                          *)
(***************************************************************************)
C16_TransitModel ==
  transitEval.pc = "returned" =>
    /\ transitEval.t = 0 =>
         /\ 10 * (100000 - transitEval.result) <= transitEval.depth
         /\ 10 * (100000 - transitEval.result) > transitEval.depth - 10
    /\ (transitEval.t >= 1485 \/ transitEval.t <= 0 - 1485) =>
         transitEval.result = 100000

\* transitModel(0, 0.012) returned 0.988.
C16_Witness ==
  /\ transitEval.pc = "returned"
  /\ transitEval.t = 0
  /\ transitEval.depth = 12000
  /\ transitEval.result = 98800

(***************************************************************************)
(* The depth of one channel on its own (lines 105-119): depth starts at    *)
(* baseDepth and the loops over the molecules and their features visit     *)
(* every range, one a step.  depthEval.m and depthEval.k are the positions *)
(* in molecularEffects and in the features of the molecule;                *)
(* depthEval.last is the range visited last and depthEval.prev the depth   *)
(* before it was visited.                                                  *)
(***************************************************************************)
InitDepth ==
  /\ HandlerIdle /\ EstimatorOff /\ BinnerOff /\ OthersOff
  /\ \E j \in 0..(nWavelengths - 1) :
       depthEval = [pc |-> "features", j |-> j, wl |-> At(wavelengths, j),
                    depth |-> baseDepth, prev |-> baseDepth,
                    last |-> <<0, 0, 0>>, m |-> 1, k |-> 1]
  /\ hasher = StageOff /\ generator = StageOff /\ seedPair = StageOff
  /\ gridBuild = StageOff /\ transitEval = StageOff /\ synth = StageOff

\* Lines 109-119: one range is visited, or a loop ends.
VisitFeature ==
  /\ depthEval.pc = "features"
  /\ depthEval' =
       IF depthEval.m > Len(molecularEffects)
       THEN [depthEval EXCEPT !.pc = "done"]
       ELSE IF depthEval.k > Len(molecularEffects[depthEval.m].features)
       THEN [depthEval EXCEPT !.m = depthEval.m + 1, !.k = 1]
       ELSE [depthEval EXCEPT
               !.prev = depthEval.depth,
               !.last = molecularEffects[depthEval.m].features[depthEval.k],
               !.depth = depthEval.depth
                           + Feature(depthEval.wl,
                                     molecularEffects[depthEval.m].features[depthEval.k]),
               !.k = depthEval.k + 1]
  /\ UNCHANGED <<pipelineVars, hasher, generator, seedPair, gridBuild,
                 transitEval, synth>>

SpecDepth == InitDepth /\ [][VisitFeature]_vars

(***************************************************************************)
(* C17.  The depth of a channel is the baseline 0.012 plus, for every      *)
(* range (min, max, extraDepth) of every molecule with                     *)
(* min <= wavelength <= max, one bump that is not negative and at most     *)
(* extraDepth; the bumps of several containing ranges are summed without   *)
(* cap; a channel inside no range has exactly the baseline depth, and the  *)
(* depth is never below the baseline.  (Depths are in ppm: the baseline is *)
(* 12000.  No two ranges of the table overlap, so a channel lies in one    *)
(* range at most; that the bumps add up is what the step from range to     *)
(* range shows.)                                                           *)
(***************************************************************************)
\* Every range of the table, as <<min, max, extraDepth>>, molecule by
\* molecule.
RECURSIVE RangesFrom(_)
RangesFrom(m) ==
  IF m > Len(molecularEffects) THEN <<>>
  ELSE molecularEffects[m].features \o RangesFrom(m + 1)

\* min <= wavelength <= max
Contains(range, wl) == range[1] <= wl /\ wl <= range[2]

\* The sum of extraDepth over the ranges among the first `count` that
\* contain the wavelength.
RECURSIVE ExtraOver(_, _, _)
ExtraOver(ranges, count, wl) ==
  IF count = 0 THEN 0
  ELSE ExtraOver(ranges, count - 1, wl)
         + (IF Contains(ranges[count], wl) THEN ranges[count][3] ELSE 0)

C17_Depth ==
  depthEval.pc \in {"features", "done"} =>
    LET ranges == RangesFrom(1)
        bump   == depthEval.depth - depthEval.prev
    IN  /\ depthEval.depth >= 12000
        \* the range visited last added one bump, or nothing
        /\ IF Contains(depthEval.last, depthEval.wl)
           THEN bump >= 0 /\ bump <= depthEval.last[3]
           ELSE bump = 0
        /\ depthEval.pc = "done" =>
             /\ depthEval.depth - 12000 <= ExtraOver(ranges, Len(ranges), depthEval.wl)
             /\ (\A k \in 1..Len(ranges) : ~Contains(ranges[k], depthEval.wl))
                  => depthEval.depth = 12000
             /\ depthEval.depth = Depth(depthEval.j)

\* Channel 157 (4.308 um) lies in the range 4.2 .. 4.4 of CO2 and in no
\* other: its depth is above the baseline.
C17_Witness ==
  /\ depthEval.pc = "done"
  /\ depthEval.j = 157
  /\ depthEval.depth > 12000
  /\ depthEval.depth <= 18000

(***************************************************************************)
(* The synthesis of the flux cube on its own (lines 104-128), a draw a     *)
(* step: for the cell the loops stand at, the first variate is drawn, then *)
(* the second, then the cell is written and the loops advance.             *)
(* synth.draws counts the calls of rand, synth.u1At and synth.u2At are the *)
(* numbers of the calls that gave u1 and u2, synth.writes counts the       *)
(* cells written, and synth.lastI, synth.lastJ, synth.cell are the cell    *)
(* written last and its value.                                             *)
(***************************************************************************)
\* Loops with the time index outermost.
NextCellTimeMajor(i, j) ==
  IF j + 1 < nWavelengths THEN <<i, j + 1>> ELSE <<i + 1, 0>>

\* The cell after (i, j): the inner loop runs over i, the outer over j.
NextCell(i, j) ==
  IF i + 1 < nTimes THEN <<i + 1, j>> ELSE <<0, j + 1>>

\* The loops are over when either index has left its range.
CellsLeft(cell) == cell[1] < nTimes /\ cell[2] < nWavelengths

InitSynth ==
  /\ HandlerIdle /\ EstimatorOff /\ BinnerOff /\ OthersOff
  /\ \E name \in Targets :
       synth = [pc |-> "u1", from |-> hashString(name),
                seed |-> seededRandom(hashString(name)),
                i |-> 0, j |-> 0, draws |-> 0, writes |-> 0,
                u1 |-> 0, u2 |-> 0, u1At |-> 0, u2At |-> 0,
                lastI |-> 0, lastJ |-> 0, cell |-> 0]
  /\ hasher = StageOff /\ generator = StageOff /\ seedPair = StageOff
  /\ gridBuild = StageOff /\ transitEval = StageOff /\ depthEval = StageOff

\* Line 13: const u1 = rand()
DrawFirst ==
  /\ synth.pc = "u1"
  /\ synth' = [synth EXCEPT !.pc = "u2",
                            !.seed = rand(synth.seed),
                            !.u1 = RandValue(rand(synth.seed)),
                            !.draws = synth.draws + 1,
                            !.u1At = synth.draws + 1]
  /\ UNCHANGED <<pipelineVars, hasher, generator, seedPair, gridBuild,
                 transitEval, depthEval>>

\* Line 14: const u2 = rand()
DrawSecond ==
  /\ synth.pc = "u2"
  /\ synth' = [synth EXCEPT !.pc = "write",
                            !.seed = rand(synth.seed),
                            !.u2 = RandValue(rand(synth.seed)),
                            !.draws = synth.draws + 1,
                            !.u2At = synth.draws + 1]
  /\ UNCHANGED <<pipelineVars, hasher, generator, seedPair, gridBuild,
                 transitEval, depthEval>>

\* Lines 15-16 and 122-124: the sample is formed, flux[i][j] is written and
\* the loops advance.
WriteCell ==
  /\ synth.pc = "write"
  /\ LET next == NextCell(synth.i, synth.j)
     IN  synth' = [synth EXCEPT
                     !.cell = Add(transitModel(At(phase, synth.i), Depth(synth.j)),
                                  BoxMuller(synth.u1, synth.u2, 0, noiseStdDev)),
                     !.lastI = synth.i,
                     !.lastJ = synth.j,
                     !.writes = synth.writes + 1,
                     !.i = next[1],
                     !.j = next[2],
                     !.pc = IF CellsLeft(next) THEN "u1" ELSE "done"]
  /\ UNCHANGED <<pipelineVars, hasher, generator, seedPair, gridBuild,
                 transitEval, depthEval>>

NextSynth == DrawFirst \/ DrawSecond \/ WriteCell

SpecSynth == InitSynth /\ [][NextSynth]_vars

(***************************************************************************)
(* C18.  Every cell (time i, wavelength j) of the 100 x 200 cube is        *)
(* written exactly once, as transitModel(phase[i], depth[j]) plus one      *)
(* Gaussian draw, wavelength by wavelength (outer loop j, inner loop i);   *)
(* a Gaussian draw takes two variates, u1 then u2, so cell (i, j) uses the *)
(* draws number 2 * (100 * j + i) + 1 and 2 * (100 * j + i) + 2, and a run *)
(* takes 40000 draws in all.                                               *)
(***************************************************************************)
C18_DrawOrder ==
  synth.pc \in {"u1", "u2", "write", "done"} =>
    /\ synth.pc \in {"u1", "u2", "write"} =>
         /\ synth.i \in 0..99 /\ synth.j \in 0..199
         \* the cells written so far are those before (i, j), j outermost
         /\ synth.writes = 100 * synth.j + synth.i
    /\ synth.pc = "u1" => synth.draws = 2 * (100 * synth.j + synth.i)
    /\ synth.pc \in {"u2", "write"} =>
         synth.u1At = 2 * (100 * synth.j + synth.i) + 1
    /\ synth.pc = "u2" => synth.draws = synth.u1At
    /\ synth.pc = "write" =>
         /\ synth.u2At = 2 * (100 * synth.j + synth.i) + 2
         /\ synth.draws = synth.u2At
    /\ synth.writes > 0 =>
         \* the cell written last is the one the count of writes names
         /\ 100 * synth.lastJ + synth.lastI = synth.writes - 1
         /\ synth.lastI \in 0..99 /\ synth.lastJ \in 0..199
         /\ synth.cell = Flux(CubeOf(synth.from).cols, synth.lastI, synth.lastJ)
    /\ synth.pc \in {"u1", "done"} /\ synth.writes > 0 =>
         /\ synth.u1At = 2 * (synth.writes - 1) + 1
         /\ synth.u2At = 2 * (synth.writes - 1) + 2
         /\ synth.cell = Add(transitModel(phase[synth.lastI + 1], Depth(synth.lastJ)),
                             BoxMuller(synth.u1, synth.u2, 0, 50))
    /\ synth.pc = "done" =>
         /\ synth.writes = 20000
         /\ synth.draws = 40000
         /\ synth.seed = CubeOf(synth.from).seed

\* Cell (0, 1), the first of the second channel, has been written as the
\* 101st cell, with the draws 201 and 202.
C18_Witness ==
  /\ synth.pc = "u1"
  /\ synth.lastI = 0 /\ synth.lastJ = 1
  /\ synth.u1At = 201 /\ synth.u2At = 202
  /\ synth.writes = 101

(***************************************************************************)
(* C19.  An invalid input (an empty target name, or a bin_size that is not *)
(* an integer) is rejected with an error before the grids are built: no    *)
(* stage runs and no result is returned for it.  An invocation of the      *)
(* model that is done has run every stage and returned Response(r), so the *)
(* claim is that the target of every such invocation is not empty and its  *)
(* bin_size, when the URL carries one, is the text of an integer.          *)
(***************************************************************************)
IsDigit(c) == c >= 48 /\ c <= 57

\* An optional sign and then digits, at least one, and nothing else.
IsInteger(str) ==
  LET from == IF Len(str) > 0 /\ str[1] \in {43, 45} THEN 2 ELSE 1
  IN  /\ from <= Len(str)
      /\ \A k \in from..Len(str) : IsDigit(str[k])

C19_InvalidRejected ==
  \A r \in Done :
    /\ reqTarget[r] # <<>>
    /\ reqQuery[r].present => IsInteger(reqQuery[r].value)

(***************************************************************************)
(* The generators of two names side by side (lines 41-42 and 5-8): each    *)
(* name is hashed, a generator is created from its seed, and the two are   *)
(* drawn from in step.  seedPair.outA and seedPair.outB are the numerators *)
(* of the variates drawn so far.                                           *)
(***************************************************************************)
MaxPairDraws == 4

PairNames == {Wasp39b, K218b, Gj9827d, Hd52d, NameAb, NameBa}

InitPair ==
  /\ HandlerIdle /\ EstimatorOff /\ BinnerOff /\ OthersOff
  /\ \E nameA \in PairNames, nameB \in PairNames :
       seedPair = [pc |-> "named", nameA |-> nameA, nameB |-> nameB]
  /\ hasher = StageOff /\ generator = StageOff /\ gridBuild = StageOff
  /\ transitEval = StageOff /\ depthEval = StageOff /\ synth = StageOff

\* Lines 41-42, for each of the two names.
SeedBoth ==
  /\ seedPair.pc = "named"
  /\ seedPair' = [pc |-> "drawing",
                  nameA |-> seedPair.nameA, nameB |-> seedPair.nameB,
                  seedA |-> hashString(seedPair.nameA),
                  seedB |-> hashString(seedPair.nameB),
                  genA |-> seededRandom(hashString(seedPair.nameA)),
                  genB |-> seededRandom(hashString(seedPair.nameB)),
                  outA |-> <<>>, outB |-> <<>>]
  /\ UNCHANGED <<pipelineVars, hasher, generator, gridBuild, transitEval,
                 depthEval, synth>>

\* Lines 6-7: each generator is called once.
DrawBoth ==
  /\ seedPair.pc = "drawing"
  /\ Len(seedPair.outA) < MaxPairDraws
  /\ seedPair' = [seedPair EXCEPT
                    !.genA = rand(seedPair.genA),
                    !.genB = rand(seedPair.genB),
                    !.outA = Append(seedPair.outA, RandValue(rand(seedPair.genA))),
                    !.outB = Append(seedPair.outB, RandValue(rand(seedPair.genB)))]
  /\ UNCHANGED <<pipelineVars, hasher, generator, gridBuild, transitEval,
                 depthEval, synth>>

NextPair == SeedBoth \/ DrawBoth

SpecPair == InitPair /\ [][NextPair]_vars

(***************************************************************************)
(* C20.  Seed sensitivity: two target names whose seeds are distinct       *)
(* produce distinct sequences of uniform variates and therefore distinct   *)
(* flux cubes.  The cubes are compared in their first channel, the 100     *)
(* cells written first: cubes that differ there are distinct.              *)
(***************************************************************************)
\* The first channel of the cube of a seed (flux[0..99][0]) and the state
\* of the generator after it.
FirstChannel(from) == SynthColumn(seededRandom(from), Depth(0), 0, nTimes)

C20_SeedSensitivity ==
  (seedPair.pc = "drawing" /\ Len(seedPair.outA) > 0
     /\ seedPair.seedA # seedPair.seedB) =>
    /\ seedPair.outA # seedPair.outB
    /\ FirstChannel(seedPair.seedA).col # FirstChannel(seedPair.seedB).col

(***************************************************************************)
(* C20, amended.  The sequence of variates depends on the seed modulo      *)
(* 233280 only.  Two names whose seeds differ modulo 233280 produce        *)
(* sequences that differ from the first variate on, and distinct flux      *)
(* cubes; two names whose seeds are congruent modulo 233280, distinct or   *)
(* not, produce the same sequence, the same first channel and the same     *)
(* state of the generator after it, hence the same cube.                   *)
(***************************************************************************)
C20_SeedSensitivityModulo ==
  (seedPair.pc = "drawing" /\ Len(seedPair.outA) > 0) =>
    IF Residue(seedPair.seedA) # Residue(seedPair.seedB)
    THEN /\ seedPair.outA[1] # seedPair.outB[1]
         /\ seedPair.outA # seedPair.outB
         /\ FirstChannel(seedPair.seedA).col # FirstChannel(seedPair.seedB).col
    ELSE /\ seedPair.outA = seedPair.outB
         /\ seedPair.genA = seedPair.genB
         /\ FirstChannel(seedPair.seedA) = FirstChannel(seedPair.seedB)

\* "GJ 9827 d" and "HD 52 d": the seeds 659166917 and 1453718597 differ by
\* 3406 * 233280, and the variates drawn are the same.
C20_Witness ==
  /\ seedPair.pc = "drawing"
  /\ seedPair.nameA = Gj9827d
  /\ seedPair.nameB = Hd52d
  /\ seedPair.seedA # seedPair.seedB
  /\ Len(seedPair.outA) = MaxPairDraws
  /\ seedPair.outA = seedPair.outB

\* ---------------------------------------------------------------------------
\* The water bands in the binned spectrum of "WASP-39 b" at bin size 20.
\* ---------------------------------------------------------------------------

\* The bin whose binned wavelength lies nearest to wl.
NearestBin(ws, wl) ==
  CHOOSE b \in 1..Len(ws) :
    \A c \in 1..Len(ws) : AbsNum(ws[b] - wl) <= AbsNum(ws[c] - wl)

\* d[b] is above the depth of each bin next to it.
IsLocalMax(d, b) ==
  /\ b > 1      => Gt(d[b], d[b - 1])
  /\ b < Len(d) => Gt(d[b], d[b + 1])

\* The lowest depth of the spectrum: the level the bands rise from.
Baseline(d) == CHOOSE v \in {d[b] : b \in 1..Len(d)} : \A b \in 1..Len(d) : v <= d[b]

\* v is within a tenth of the base depth of 12000 ppm.
AboutBaseDepth(v) == 10 * AbsNum(v - baseDepth) <= baseDepth

WaterBands == {Um(140), Um(200), Um(280)}

WaterBandsShow(resp) ==
  LET d  == resp.transmission_spectrum.transit_depth_ppm
      ws == resp.transmission_spectrum.wavelengths
  IN  /\ AboutBaseDepth(Baseline(d))
      /\ \A wl \in WaterBands :
           /\ IsLocalMax(d, NearestBin(ws, wl))
           /\ d[NearestBin(ws, wl)] > Baseline(d)

\* C21: for target "WASP-39 b" and bin size 20 the returned transit_depth_ppm
\* has a local maximum at the bin nearest 1.4 um, at the bin nearest 2.0 um
\* and at the bin nearest 2.8 um, each above a baseline of about 12000 ppm.
C21_WaterBands ==
  \A r \in Done :
    (reqTarget[r] = Wasp39b /\ usedBinSize[r] = 20) => WaterBandsShow(Response(r))

\* C22: started from a non-zero seed the generator never returns exactly 0:
\* no first variate u1 of the 20000 Gaussian samples of a generation run is 0.
C22_NeverZero ==
  (synth.pc \in {"u2", "write"} /\ synth.from # Wide(0)) => synth.u1 # 0

(***************************************************************************)
(* C23.  For every depth >= 0 the transit model is symmetric               *)
(* (transitModel(-p, d) = transitModel(p, d)), equals 1 - depth for        *)
(* |phase| <= 0.01, rises linearly in |phase| from 1 - depth at            *)
(* |phase| = 0.01 to 1 at |phase| = 0.015, has no jump at either end of    *)
(* the ramp, and always lies in [1 - depth, 1].  (0.01 is 990 and 0.015 is *)
(* 1485 in the unit of phase, the ramp is 495 units long; flux is in units *)
(* of 1e-5 and depth in ppm, so the line is met to within one unit of      *)
(* flux, and "no jump" is: one unit of phase further the model has moved   *)
(* by no more than the slope of the ramp, depth / 495, and that unit.)     *)
(***************************************************************************)
C23_TransitShape ==
  transitEval.pc = "returned" =>
    LET p      == transitEval.t
        d      == transitEval.depth
        result == transitEval.result
        absP   == AbsNum(p)
    IN  /\ result = transitModel(0 - p, d)
        /\ absP <= 990 => /\ 10 * (100000 - result) <= d
                          /\ 10 * (100000 - result) > d - 10
        /\ (absP >= 990 /\ absP <= 1485) =>
             \* on the line through (0.01, 1 - depth) and (0.015, 1)
             AbsNum(4950 * (100000 - result) - d * (1485 - absP)) < 4950
        /\ AbsNum(transitModel(p + 1, d) - result) <= d \div 4950 + 1
        /\ result <= 100000
        /\ 10 * (100000 - result) <= d

\* transitModel(-0.0126..., 0.012), half-way up the ingress ramp, returned
\* 0.99431: strictly between 1 - depth and 1.
C23_Witness ==
  /\ transitEval.pc = "returned"
  /\ transitEval.t = 0 - 1250
  /\ transitEval.depth = 12000
  /\ transitEval.result = 99431

(***************************************************************************)
(* The stages of the handler in their order (lines 44-236).  The code is   *)
(* one synchronous function: after `await params` it runs its loops one    *)
(* after the other.  flow.pc is the stage the control is in; flow.grids,   *)
(* flow.cells, flow.depths, flow.bins and flow.lc count the elements       *)
(* written so far to the grids, to flux, to transitDepth/transitDepthErr,  *)
(* to the binned arrays and to lightcurveFlux; flow.entries counts how     *)
(* often each stage was entered, and flow.early records that a stage read  *)
(* from an output that was not complete.                                   *)
(***************************************************************************)
FlowStages == <<"grids", "synth", "estimate", "bin", "lightcurve", "respond">>

StageIndex(stage) ==
  IF stage = "done" THEN Len(FlowStages) + 1
  ELSE CHOOSE k \in 1..Len(FlowStages) : FlowStages[k] = stage

nCells == nTimes * nWavelengths

\* The flux loops left after the first channel.
SynthDoneFirstChannel(cells) == cells >= nTimes

\* Lines 104 and 121: the loops over j and i have run to their ends.
SynthDone(cells) == cells = nCells

Enter(stage) ==
  [flow EXCEPT !.pc = stage, !.entries[stage] = flow.entries[stage] + 1]

InitFlow ==
  /\ HandlerIdle /\ EstimatorOff /\ BinnerOff
  /\ hasher = StageOff /\ generator = StageOff /\ seedPair = StageOff
  /\ gridBuild = StageOff /\ transitEval = StageOff /\ depthEval = StageOff
  /\ synth = StageOff /\ gate = StageOff /\ page = StageOff
  /\ \E binSize \in BinSizes :
       flow = [pc |-> "grids", binSize |-> binSize, nBins |-> NumBins(binSize),
               grids |-> 0, cells |-> 0, depths |-> 0, bins |-> 0, lc |-> 0,
               entries |-> [s \in {FlowStages[k] : k \in 1..Len(FlowStages)} |->
                              IF s = "grids" THEN 1 ELSE 0],
               early |-> FALSE]

\* Lines 45-56: the wavelength grid and then the phase grid, and on to the
\* flux loops.
BuildGrids ==
  /\ flow.pc = "grids"
  /\ flow' = [Enter("synth") EXCEPT !.grids = nWavelengths + nTimes]
  /\ UNCHANGED <<handlerVars, estimatorVars, binnerVars, gate, page, hasher,
                 generator, seedPair, gridBuild, transitEval, depthEval, synth>>

\* Lines 121-125: one cell of flux is written; it reads both grids.
WriteFlux ==
  /\ flow.pc = "synth"
  /\ ~SynthDone(flow.cells)
  /\ flow' = [flow EXCEPT !.cells = flow.cells + 1,
                          !.early = flow.early \/ flow.grids < nWavelengths + nTimes]
  /\ UNCHANGED <<handlerVars, estimatorVars, binnerVars, gate, page, hasher,
                 generator, seedPair, gridBuild, transitEval, depthEval, synth>>

\* Lines 131-137: the loops are over, the masks are made.
StartEstimate ==
  /\ flow.pc = "synth"
  /\ SynthDone(flow.cells)
  /\ flow' = Enter("estimate")
  /\ UNCHANGED <<handlerVars, estimatorVars, binnerVars, gate, page, hasher,
                 generator, seedPair, gridBuild, transitEval, depthEval, synth>>

\* Lines 139-167: one channel is estimated from its column of flux, and its
\* depth and error are pushed.
EstimateOne ==
  /\ flow.pc = "estimate"
  /\ flow.depths < nWavelengths
  /\ flow' = [flow EXCEPT !.depths = flow.depths + 1,
                          !.early = flow.early \/ flow.cells < nCells]
  /\ UNCHANGED <<handlerVars, estimatorVars, binnerVars, gate, page, hasher,
                 generator, seedPair, gridBuild, transitEval, depthEval, synth>>

\* Lines 170-178: nBins is computed and the binned arrays are made.
StartBinning ==
  /\ flow.pc = "estimate"
  /\ ~(flow.depths < nWavelengths)
  /\ flow' = Enter("bin")
  /\ UNCHANGED <<handlerVars, estimatorVars, binnerVars, gate, page, hasher,
                 generator, seedPair, gridBuild, transitEval, depthEval, synth>>

\* Lines 180-203: one bin is averaged from the depths, the errors and flux.
BinOne ==
  /\ flow.pc = "bin"
  /\ Lt(flow.bins, flow.nBins)
  /\ flow' = [flow EXCEPT !.bins = flow.bins + 1,
                          !.early = \/ flow.early
                                    \/ flow.depths < nWavelengths
                                    \/ flow.cells < nCells]
  /\ UNCHANGED <<handlerVars, estimatorVars, binnerVars, gate, page, hasher,
                 generator, seedPair, gridBuild, transitEval, depthEval, synth>>

\* Line 206: `b < nBins` is false, the light curve is begun.
StartLightcurve ==
  /\ flow.pc = "bin"
  /\ ~Lt(flow.bins, flow.nBins)
  /\ flow' = Enter("lightcurve")
  /\ UNCHANGED <<handlerVars, estimatorVars, binnerVars, gate, page, hasher,
                 generator, seedPair, gridBuild, transitEval, depthEval, synth>>

\* Lines 207-213: one time sample is averaged over the bins of its row.
AverageOne ==
  /\ flow.pc = "lightcurve"
  /\ flow.lc < nTimes
  /\ flow' = [flow EXCEPT !.lc = flow.lc + 1,
                          !.early = flow.early \/ Lt(flow.bins, flow.nBins)]
  /\ UNCHANGED <<handlerVars, estimatorVars, binnerVars, gate, page, hasher,
                 generator, seedPair, gridBuild, transitEval, depthEval, synth>>

\* Line 215: the loop is over, the response is put together.
StartRespond ==
  /\ flow.pc = "lightcurve"
  /\ ~(flow.lc < nTimes)
  /\ flow' = Enter("respond")
  /\ UNCHANGED <<handlerVars, estimatorVars, binnerVars, gate, page, hasher,
                 generator, seedPair, gridBuild, transitEval, depthEval, synth>>

\* Lines 215-236: return NextResponse.json(...)
Respond ==
  /\ flow.pc = "respond"
  /\ flow' = [flow EXCEPT !.pc = "done",
                          !.early = flow.early \/ flow.lc < nTimes]
  /\ UNCHANGED <<handlerVars, estimatorVars, binnerVars, gate, page, hasher,
                 generator, seedPair, gridBuild, transitEval, depthEval, synth>>

NextFlow ==
  \/ BuildGrids \/ WriteFlux \/ StartEstimate \/ EstimateOne \/ StartBinning
  \/ BinOne \/ StartLightcurve \/ AverageOne \/ StartRespond \/ Respond

SpecFlow == InitFlow /\ [][NextFlow]_vars

(***************************************************************************)
(* C24.  The pipeline is strictly linear: the stages run once each in the  *)
(* order grids, depth and flux synthesis, spectrum estimation, binning,    *)
(* light-curve aggregation, result assembly; no stage is re-entered or     *)
(* retried, and no stage reads an element of an earlier stage's output     *)
(* before that stage has written all of it (the estimator starts only      *)
(* after all 20000 flux cells exist, the binner only after all 200 depths  *)
(* and errors exist).                                                      *)
(***************************************************************************)
C24_Linear ==
  flow.pc # "off" =>
    LET at == StageIndex(flow.pc)
    IN  /\ \A k \in 1..Len(FlowStages) :
             flow.entries[FlowStages[k]] = IF k <= at THEN 1 ELSE 0
        /\ ~flow.early
        /\ at >= StageIndex("synth")      => flow.grids = 300
        /\ at >= StageIndex("estimate")   => flow.cells = 20000
        /\ at >= StageIndex("bin")        => flow.depths = 200
        /\ at >= StageIndex("lightcurve") => ~Lt(flow.bins, flow.nBins)
        /\ at >= StageIndex("respond")    => flow.lc = 100
        /\ at < StageIndex("synth")       => flow.cells = 0
        /\ at < StageIndex("estimate")    => flow.depths = 0
        /\ at < StageIndex("bin")         => flow.bins = 0
        /\ at < StageIndex("lightcurve")  => flow.lc = 0

\* The run at bin size 20 has returned: every stage was entered once, with
\* 20000 cells, 200 depths, 10 bins and 100 light-curve samples written.
C24_Witness ==
  /\ flow.pc = "done"
  /\ flow.binSize = 20
  /\ flow.cells = 20000 /\ flow.depths = 200 /\ flow.bins = 10 /\ flow.lc = 100
  /\ \A k \in 1..Len(FlowStages) : flow.entries[FlowStages[k]] = 1

(***************************************************************************)
(* C25.  For the fixed 100-point phase grid, in every run and for every    *)
(* channel the in-transit set has exactly 30 samples (indices 35..64), the *)
(* out-of-transit set has exactly 50 samples (indices 0..24 and 75..99)    *)
(* and 20 samples are in neither, so inCount and outCount are never 0 and  *)
(* the empty-set failure mode is unreachable.                              *)
(***************************************************************************)
Masked(mask) == {i \in 0..(nTimes - 1) : At(mask, i)}

C25_SetSizes ==
  estPc \in {"summed", "pushed"} =>
    /\ Masked(inTransitMask) = 35..64
    /\ Masked(outTransitMask) = (0..24) \cup (75..99)
    /\ Cardinality((0..99) \ (Masked(inTransitMask) \cup Masked(outTransitMask))) = 20
    /\ inSums.count = 30
    /\ outSums.count = 50
    /\ estPc = "pushed" => chanEst.depth # NaN /\ chanEst.err # NaN

\* A channel has been summed with inCount = 30 and outCount = 50, and its
\* estimate has been pushed.
C25_Witness ==
  /\ estPc = "pushed"
  /\ inSums.count = 30
  /\ outSums.count = 50
  /\ IsFinite(chanEst.depth)

(***************************************************************************)
(* C26.  Every time sample the estimator counts as in-transit              *)
(* (|phase| < 0.015) has noise-free model flux exactly 1 - depth, and      *)
(* every sample it counts as out-of-transit (|phase| > 0.025) has          *)
(* noise-free model flux exactly 1; hence with the noise set to zero the   *)
(* estimated transit depth of every channel equals the depth injected for  *)
(* that channel (depth * 1e6 ppm, the value the code records in            *)
(* transitDepthRaw).  (Flux is in units of 1e-5, so "equals" is taken to   *)
(* within 20 ppm.)                                                         *)
(***************************************************************************)
\* The depth a noise-free column was made with.
InjectedDepth(col) ==
  CHOOSE depth \in {Depth(j) : j \in 0..(nWavelengths - 1)} : col = ModelColumn(depth)

C26_NoiseFreeEstimate ==
  (estPc = "pushed" /\ chanFlux \in ModelColumns) =>
    LET depth == InjectedDepth(chanFlux)
    IN  /\ \A i \in Masked(inTransitMask) :
             At(chanFlux, i) = FluxOne - depth \div 10
        /\ \A i \in Masked(outTransitMask) : At(chanFlux, i) = FluxOne
        /\ AbsNum(chanEst.depth - depth) <= 20

(***************************************************************************)
(* C27.  For every time sample the light-curve flux equals the unweighted  *)
(* mean of the raw (unbinned) flux over the first floor(200/B)*B           *)
(* wavelength channels; the dropped trailing channels never contribute,    *)
(* and for any two bin sizes that both divide 200 the light curve is the   *)
(* same for the same target.  (The code divides twice, by B for a bin and  *)
(* by the number of bins for the row, where the mean divides once; in the  *)
(* fixed point of flux, units of 1e-5, the two agree to within two units.) *)
(***************************************************************************)
\* flux[i][lo] + ... + flux[i][hi - 1] of the raw cube.
RECURSIVE RawSum(_, _, _, _)
RawSum(cols, i, lo, hi) ==
  IF hi <= lo THEN 0
  ELSE IF hi = lo + 1 THEN Flux(cols, i, lo)
  ELSE LET mid == (lo + hi) \div 2
       IN  Add(RawSum(cols, i, lo, mid), RawSum(cols, i, mid, hi))

\* a and b are the same Number, to within two units of flux when finite.
Close(a, b) ==
  IF IsFinite(a) /\ IsFinite(b) THEN AbsNum(a - b) <= 2
  ELSE a = b /\ a # NaN

Divides(binSize) == binSize # NaN /\ binSize > 0 /\ nWavelengths % binSize = 0

C27_LightcurveOfRaw ==
  /\ \A r \in Done :
       LET nBins == NumBins(usedBinSize[r])
           lc    == Response(r).lightcurve.flux
           cols  == CubeOf(genInit[r]).cols
       IN  /\ IsFinite(nBins) /\ nBins >= 1
           /\ \A i \in 0..(nTimes - 1) :
                Close(At(lc, i),
                      DivCount(RawSum(cols, i, 0, nBins * usedBinSize[r]),
                               nBins * usedBinSize[r]))
  /\ \A r1, r2 \in Done :
       (/\ reqTarget[r1] = reqTarget[r2]
        /\ Divides(usedBinSize[r1]) /\ Divides(usedBinSize[r2])) =>
         \A i \in 0..(nTimes - 1) :
           Close(At(Response(r1).lightcurve.flux, i),
                 At(Response(r2).lightcurve.flux, i))

(***************************************************************************)
(* The overlay table of the molecular-bands route: for each molecule the   *)
(* (min, max) ranges it serves, in thousandths of a micron.                *)
(***************************************************************************)
MOLECULAR_BANDS ==
  << [name |-> "H2O", ranges |-> << <<1350, 1450>>, <<1800, 2000>>,
                                    <<2600, 3000>>, <<5500, 7500>> >>],
     [name |-> "CO2", ranges |-> << <<4200, 4400>>, <<15000, 16000>> >>],
     [name |-> "CO",  ranges |-> << <<4500, 5000>> >>],
     [name |-> "CH4", ranges |-> << <<2200, 2400>>, <<3200, 3500>>,
                                    <<7500, 8000>> >>],
     [name |-> "SO2", ranges |-> << <<7300, 7500>>, <<8500, 9000>> >>],
     [name |-> "NH3", ranges |-> << <<10000, 11000>> >>],
     [name |-> "Na",  ranges |-> << <<589, 590>> >>],
     [name |-> "K",   ranges |-> << <<766, 770>> >>] >>

\* A wavelength of the simulator (unit 1/19900 um) and one of the overlay
\* table (thousandths of a micron) in a unit they share, 1/199000 um.
SimFine(wl) == wl * 10
BandFine(wl) == wl * (nWavelengths - 1)

\* The simulator's range f of the molecule `name` lies inside a range the
\* overlay table has for that molecule.
InsideOverlay(name, f) ==
  \E b \in 1..Len(MOLECULAR_BANDS) :
    /\ MOLECULAR_BANDS[b].name = name
    /\ \E k \in 1..Len(MOLECULAR_BANDS[b].ranges) :
         /\ BandFine(MOLECULAR_BANDS[b].ranges[k][1]) <= SimFine(f[1])
         /\ SimFine(f[2]) <= BandFine(MOLECULAR_BANDS[b].ranges[k][2])

(***************************************************************************)
(* C28.  The seven (min, max) ranges of the simulator's molecular table    *)
(* are pairwise disjoint, so at most one range contributes to any          *)
(* wavelength channel and every channel depth lies in [0.012, 0.018]; and  *)
(* each simulator range lies inside a range of the same molecule in the    *)
(* overlay table served by the molecular-bands route.                      *)
(***************************************************************************)
C28_Ranges ==
  depthEval.pc \in {"features", "done"} =>
    LET ranges == RangesFrom(1)
    IN  /\ Len(ranges) = 7
        /\ \A a, b \in 1..Len(ranges) :
             a # b => ranges[a][2] < ranges[b][1] \/ ranges[b][2] < ranges[a][1]
        /\ Cardinality({k \in 1..Len(ranges) : Contains(ranges[k], depthEval.wl)}) <= 1
        /\ depthEval.depth >= 12000 /\ depthEval.depth <= 18000
        /\ \A m \in 1..Len(molecularEffects) :
             \A k \in 1..Len(molecularEffects[m].features) :
               InsideOverlay(molecularEffects[m].name, molecularEffects[m].features[k])

\* Channel 95 (2.844 um) lies in the range 2.7 .. 3.0 of H2O, which the
\* overlay table covers with 2.6 .. 3.0, and in no other: its depth is near
\* the top of that band.
C28_Witness ==
  /\ depthEval.pc = "done"
  /\ depthEval.j = 95
  /\ Contains(<<Um(270), Um(300)>>, depthEval.wl)
  /\ depthEval.depth > 16000
  /\ depthEval.depth < 17000

(***************************************************************************)
(* The site's password gate (middleware.ts and the form of                 *)
(* password/page.tsx).  Strings are sequences of character codes.          *)
(* gate.sitePassword is process.env.SITE_PASSWORD as the module read it,   *)
(* gate.jar the browser's site-auth cookie, gate.path, gate.cookie and     *)
(* gate.param the request last sent (its pathname, its site-auth cookie    *)
(* and its `password` search parameter as searchParams.get returns it),    *)
(* gate.answer what came back, gate.shown what the browser displays, and   *)
(* gate.followed tells that the request is the one a redirect led to.      *)
(***************************************************************************)
StartsWith(str, prefix) ==
  Len(str) >= Len(prefix) /\ SubSeq(str, 1, Len(prefix)) = prefix

Includes(str, c) == \E k \in 1..Len(str) : str[k] = c

HexDigit(n) == IF n < 10 THEN 48 + n ELSE 55 + n

\* encodeURIComponent, for ASCII: letters, digits and - _ . ! ~ * ' ( ) stay,
\* every other character becomes %XX.
RECURSIVE EncodeURIComponent(_)
EncodeURIComponent(str) ==
  IF str = <<>> THEN <<>>
  ELSE LET c == Head(str)
           plain == \/ (c >= 48 /\ c <= 57) \/ (c >= 65 /\ c <= 90)
                    \/ (c >= 97 /\ c <= 122)
                    \/ c \in {45, 95, 46, 33, 126, 42, 39, 40, 41}
       IN  (IF plain THEN <<c>> ELSE <<37, HexDigit(c \div 16), HexDigit(c % 16)>>)
             \o EncodeURIComponent(Tail(str))

\* What searchParams.get returns for a raw value of the query string: `+` is
\* a space and %XX the character of that code.
RECURSIVE SearchParamValue(_)
SearchParamValue(raw) ==
  IF raw = <<>> THEN <<>>
  ELSE IF Head(raw) = 43 THEN <<32>> \o SearchParamValue(Tail(raw))
  ELSE IF /\ Head(raw) = 37 /\ Len(raw) >= 3
          /\ DigitOf(raw[2], 16) >= 0 /\ DigitOf(raw[3], 16) >= 0
  THEN <<16 * DigitOf(raw[2], 16) + DigitOf(raw[3], 16)>>
         \o SearchParamValue(SubSeq(raw, 4, Len(raw)))
  ELSE <<Head(raw)>> \o SearchParamValue(Tail(raw))

\* config.matcher, "/((?!password|_next/static|_next/image|favicon.ico).*)":
\* the middleware runs for the paths whose text after the first `/` begins
\* with none of the four.
matcher(path) ==
  /\ StartsWith(path, <<47>>)
  /\ LET rest == Tail(path)
     IN  /\ ~StartsWith(rest, <<112, 97, 115, 115, 119, 111, 114, 100>>)
         /\ ~StartsWith(rest, <<95, 110, 101, 120, 116, 47, 115, 116, 97, 116, 105, 99>>)
         /\ ~StartsWith(rest, <<95, 110, 101, 120, 116, 47, 105, 109, 97, 103, 101>>)
         /\ ~(/\ StartsWith(rest, <<102, 97, 118, 105, 99, 111, 110>>)
              /\ Len(rest) >= 11
              /\ SubSeq(rest, 9, 11) = <<105, 99, 111>>)

PasswordPath == <<47, 112, 97, 115, 115, 119, 111, 114, 100>>    \* "/password"

Next_ == [kind |-> "next", location |-> <<>>, setCookie |-> Absent]

\* The middleware with a cookie test that asks only for a cookie.
middlewareAnyCookie(sitePassword, path, cookie, param) ==
  IF ~sitePassword.present \/ sitePassword.value = <<>> THEN Next_
  ELSE IF \/ StartsWith(path, <<47, 97, 112, 105>>)
          \/ StartsWith(path, <<47, 95, 110, 101, 120, 116>>)
          \/ Includes(path, 46)
  THEN Next_
  ELSE IF cookie.present THEN Next_
  ELSE IF param = sitePassword
  THEN [kind |-> "redirect", location |-> <<47>>, setCookie |-> sitePassword]
  ELSE [kind |-> "rewrite", location |-> PasswordPath, setCookie |-> Absent]

\* middleware(request), lines 6-43.
middleware(sitePassword, path, cookie, param) ==
  IF ~sitePassword.present \/ sitePassword.value = <<>> THEN Next_
  ELSE IF \/ StartsWith(path, <<47, 97, 112, 105>>)               \* "/api"
          \/ StartsWith(path, <<47, 95, 110, 101, 120, 116>>)     \* "/_next"
          \/ Includes(path, 46)                                   \* "."
  THEN Next_
  ELSE IF cookie = sitePassword THEN Next_
  ELSE IF param = sitePassword
  THEN [kind |-> "redirect", location |-> <<47>>, setCookie |-> sitePassword]
  ELSE [kind |-> "rewrite", location |-> PasswordPath, setCookie |-> Absent]

\* What a request gets: the middleware's answer where the matcher lets it
\* run, and the route itself where it does not.
Answer(sitePassword, path, cookie, param) ==
  IF matcher(path) THEN middleware(sitePassword, path, cookie, param)
  ELSE [kind |-> "unmatched", location |-> <<>>, setCookie |-> Absent]

Secret == <<97, 43, 98>>                                          \* "a+b"

SitePasswords == {Absent, Given(<<>>), Given(Secret), Given(<<120>>)}

GatePaths ==
  { <<47>>,                                                       \* "/"
    PasswordPath,
    <<47, 101, 120, 112, 108, 111, 114, 101>>,                    \* "/explore"
    <<47, 97, 112, 105, 47, 109, 97, 115, 116>>,                  \* "/api/mast"
    <<47, 95, 110, 101, 120, 116, 47, 115, 116, 97, 116, 105, 99, 47, 97, 46, 106, 115>>,
                                                                  \* "/_next/static/a.js"
    <<47, 102, 97, 118, 105, 99, 111, 110, 46, 105, 99, 111>> }   \* "/favicon.ico"

\* Raw values of ?password= in a URL somebody typed or followed.
RawParams == {<<>>, Secret, <<97, 37, 50, 66, 98>>, <<120>>}      \* "", "a+b", "a%2Bb", "x"

\* What a visitor may type into the form.
Typed == {Secret, <<97, 32, 98>>, <<120>>}                        \* "a+b", "a b", "x"

\* Cookies a client may send that no redirect gave it.
ForgedCookies == {Given(<<>>), Given(Secret), Given(<<97, 32, 98>>)}

NoAnswer == [kind |-> "none", location |-> <<>>, setCookie |-> Absent]

InitGate ==
  /\ HandlerIdle /\ EstimatorOff /\ BinnerOff
  /\ hasher = StageOff /\ generator = StageOff /\ seedPair = StageOff
  /\ gridBuild = StageOff /\ transitEval = StageOff /\ depthEval = StageOff
  /\ synth = StageOff /\ flow = StageOff /\ page = StageOff
  /\ \E sitePassword \in SitePasswords :
       gate = [pc |-> "idle", sitePassword |-> sitePassword, jar |-> Absent,
               path |-> <<>>, cookie |-> Absent, param |-> Absent,
               answer |-> NoAnswer, shown |-> <<>>, followed |-> FALSE]

\* A client asks for a path, with or without ?password=, carrying the cookie
\* of the jar or one of its own making.
Navigate(path, param, cookie) ==
  /\ gate.pc = "idle"
  /\ gate' = [gate EXCEPT !.pc = "sent", !.path = path, !.cookie = cookie,
                          !.param = param, !.answer = NoAnswer,
                          !.followed = FALSE]
  /\ UNCHANGED <<handlerVars, estimatorVars, binnerVars, flow, page, hasher,
                 generator, seedPair, gridBuild, transitEval, depthEval, synth>>

\* password/page.tsx, lines 12-19: the form sends the browser to
\* /?password=<encodeURIComponent(password)>.  The button is disabled while
\* the field is empty.
handleSubmit(password) ==
  /\ gate.pc = "idle"
  /\ gate.shown = PasswordPath
  /\ password # <<>>
  /\ gate' = [gate EXCEPT !.pc = "sent", !.path = <<47>>, !.cookie = gate.jar,
                          !.param = Given(SearchParamValue(EncodeURIComponent(password))),
                          !.answer = NoAnswer, !.followed = FALSE]
  /\ UNCHANGED <<handlerVars, estimatorVars, binnerVars, flow, page, hasher,
                 generator, seedPair, gridBuild, transitEval, depthEval, synth>>

\* The request is answered.  A redirect's cookie goes into the jar; a
\* rewrite shows the password page under the path asked for.
Serve ==
  /\ gate.pc = "sent"
  /\ LET a == Answer(gate.sitePassword, gate.path, gate.cookie, gate.param)
     IN  gate' = [gate EXCEPT
                    !.answer = a,
                    !.pc = IF a.kind = "redirect" THEN "redirected" ELSE "idle",
                    !.jar = IF a.setCookie.present THEN a.setCookie ELSE gate.jar,
                    !.shown = IF a.kind = "rewrite" THEN a.location
                              ELSE IF a.kind = "redirect" THEN gate.shown
                              ELSE gate.path]
  /\ UNCHANGED <<handlerVars, estimatorVars, binnerVars, flow, page, hasher,
                 generator, seedPair, gridBuild, transitEval, depthEval, synth>>

\* The browser follows the redirect, with the cookie it was just given.
FollowRedirect ==
  /\ gate.pc = "redirected"
  /\ gate' = [gate EXCEPT !.pc = "sent", !.path = gate.answer.location,
                          !.cookie = gate.jar, !.param = Absent,
                          !.answer = NoAnswer, !.followed = TRUE]
  /\ UNCHANGED <<handlerVars, estimatorVars, binnerVars, flow, page, hasher,
                 generator, seedPair, gridBuild, transitEval, depthEval, synth>>

\* maxAge: after seven days the browser drops the cookie.
Expire ==
  /\ gate.pc = "idle"
  /\ gate.jar.present
  /\ gate' = [gate EXCEPT !.jar = Absent]
  /\ UNCHANGED <<handlerVars, estimatorVars, binnerVars, flow, page, hasher,
                 generator, seedPair, gridBuild, transitEval, depthEval, synth>>

NextGate ==
  \/ \E path \in GatePaths,
        param \in {Absent} \cup {Given(SearchParamValue(raw)) : raw \in RawParams},
        cookie \in {gate.jar} \cup ForgedCookies :
       Navigate(path, param, cookie)
  \/ \E password \in Typed : handleSubmit(password)
  \/ Serve
  \/ FollowRedirect
  \/ Expire

SpecGate == InitGate /\ [][NextGate]_vars

\* A page path as the claim has it: it does not start with /api or /_next
\* and contains no '.'.
PagePath(path) ==
  /\ ~StartsWith(path, <<47, 97, 112, 105>>)
  /\ ~StartsWith(path, <<47, 95, 110, 101, 120, 116>>)
  /\ ~Includes(path, 46)

\* SITE_PASSWORD is set, and the request last sent has been answered.
Answered == /\ gate.pc \in {"idle", "redirected"}
            /\ gate.answer.kind # "none"
            /\ gate.sitePassword.present /\ gate.sitePassword.value # <<>>

\* What the claim says of an answered request.
GateRule ==
  /\ gate.answer.kind \in {"next", "unmatched"} => gate.cookie = gate.sitePassword
  /\ gate.cookie # gate.sitePassword =>
       IF gate.param = gate.sitePassword
       THEN /\ gate.answer.kind = "redirect"
            /\ gate.answer.location = <<47>>
            /\ gate.answer.setCookie = gate.sitePassword
       ELSE /\ gate.answer.kind = "rewrite"
            /\ gate.answer.location = PasswordPath
            /\ ~gate.answer.setCookie.present
  /\ gate.followed => gate.answer.kind = "next"

MaxRequests == 3

DataSources == {"demo", "real"}

\* Values the binning slider can be set to; 20 is the initial one.
SliderSizes == {5, 20}

NoData == [id |-> 0, target |-> <<>>, source |-> "null", binSize |-> 0]

NoError == "null"

\* Lines 232-266 up to the fetch: nothing without a target; else loading is
\* set, the error cleared and the request for the present target, source
\* and bin size sent.
fetchEffect(p) ==
  IF ~p.selectedTarget.present THEN p
  ELSE [p EXCEPT !.loading = TRUE,
                 !.error = NoError,
                 !.issued = p.issued + 1,
                 !.inflight = p.inflight \cup
                   {[id |-> p.issued + 1, target |-> p.selectedTarget.value,
                     source |-> p.dataSource, binSize |-> p.binSize]}]

\* The effect runs when one of its dependencies differs from the render
\* before.
AfterRender(old, new) ==
  IF <<old.selectedTarget, old.dataSource, old.binSize>>
       # <<new.selectedTarget, new.dataSource, new.binSize>>
  THEN fetchEffect(new) ELSE new

\* The main visualization is rendered (line 425).
Visualization(p) == p.data # NoData /\ ~p.loading /\ p.error = NoError

InitPage ==
  /\ HandlerIdle /\ EstimatorOff /\ BinnerOff
  /\ hasher = StageOff /\ generator = StageOff /\ seedPair = StageOff
  /\ gridBuild = StageOff /\ transitEval = StageOff /\ depthEval = StageOff
  /\ synth = StageOff /\ flow = StageOff /\ gate = StageOff
  /\ page = [pc |-> "mounted", selectedTarget |-> Absent, dataSource |-> "demo",
             binSize |-> 20, data |-> NoData, loading |-> FALSE,
             error |-> NoError, inflight |-> {}, issued |-> 0]

\* Line 387: a target of the selector, shown while none is selected.
SelectTarget(name) ==
  /\ page.pc = "mounted"
  /\ ~page.selectedTarget.present
  /\ page.issued < MaxRequests
  /\ page' = AfterRender(page, [page EXCEPT !.selectedTarget = Given(name)])
  /\ UNCHANGED <<handlerVars, estimatorVars, binnerVars, flow, gate, hasher,
                 generator, seedPair, gridBuild, transitEval, depthEval, synth>>

\* Lines 320-345: the Demo and MAST buttons, always there.
SwitchSource(source) ==
  /\ page.pc = "mounted"
  /\ page.issued < MaxRequests
  /\ page' = AfterRender(page, [page EXCEPT !.dataSource = source])
  /\ UNCHANGED <<handlerVars, estimatorVars, binnerVars, flow, gate, hasher,
                 generator, seedPair, gridBuild, transitEval, depthEval, synth>>

\* Lines 410-415: "Switch to demo data", shown with the error.
SwitchToDemo ==
  /\ page.pc = "mounted"
  /\ page.error # NoError /\ ~page.loading
  /\ page.issued < MaxRequests
  /\ page' = AfterRender(page, [page EXCEPT !.dataSource = "demo", !.error = NoError])
  /\ UNCHANGED <<handlerVars, estimatorVars, binnerVars, flow, gate, hasher,
                 generator, seedPair, gridBuild, transitEval, depthEval, synth>>

\* Lines 450-455: the slider, part of the visualization, disabled for real
\* data.
ChangeBinSize(binSize) ==
  /\ page.pc = "mounted"
  /\ Visualization(page)
  /\ page.dataSource # "real"
  /\ page.issued < MaxRequests
  /\ page' = AfterRender(page, [page EXCEPT !.binSize = binSize])
  /\ UNCHANGED <<handlerVars, estimatorVars, binnerVars, flow, gate, hasher,
                 generator, seedPair, gridBuild, transitEval, depthEval, synth>>

\* Lines 270-275, the Back button, shown while a target is selected.
clearSelection ==
  /\ page.pc = "mounted"
  /\ page.selectedTarget.present
  /\ page' = AfterRender(page, [page EXCEPT !.selectedTarget = Absent,
                                            !.data = NoData,
                                            !.error = NoError])
  /\ UNCHANGED <<handlerVars, estimatorVars, binnerVars, flow, gate, hasher,
                 generator, seedPair, gridBuild, transitEval, depthEval, synth>>

\* Lines 213-220: the Escape key while a target is selected.
handleKeyDown ==
  /\ page.pc = "mounted"
  /\ page.selectedTarget.present
  /\ page' = AfterRender(page, [page EXCEPT !.selectedTarget = Absent,
                                            !.data = NoData,
                                            !.error = NoError])
  /\ UNCHANGED <<handlerVars, estimatorVars, binnerVars, flow, gate, hasher,
                 generator, seedPair, gridBuild, transitEval, depthEval, synth>>

\* Lines 254-258: the response of a request came and was good.
FetchResolved(req) ==
  /\ page.pc = "mounted"
  /\ req \in page.inflight
  /\ page' = [page EXCEPT !.inflight = page.inflight \ {req},
                          !.data = req,
                          !.loading = FALSE]
  /\ UNCHANGED <<handlerVars, estimatorVars, binnerVars, flow, gate, hasher,
                 generator, seedPair, gridBuild, transitEval, depthEval, synth>>

\* Lines 259-265: the request failed, or its response was not ok.  The
\* message is chosen by the dataSource of the render that sent the request.
FetchRejected(req) ==
  /\ page.pc = "mounted"
  /\ req \in page.inflight
  /\ page' = [page EXCEPT !.inflight = page.inflight \ {req},
                          !.error = IF req.source = "real"
                                    THEN "Real data not available."
                                    ELSE "Failed to load data.",
                          !.loading = FALSE]
  /\ UNCHANGED <<handlerVars, estimatorVars, binnerVars, flow, gate, hasher,
                 generator, seedPair, gridBuild, transitEval, depthEval, synth>>

NextPage ==
  \/ \E name \in Targets : SelectTarget(name)
  \/ \E source \in DataSources : SwitchSource(source)
  \/ SwitchToDemo
  \/ \E binSize \in SliderSizes : ChangeBinSize(binSize)
  \/ clearSelection
  \/ handleKeyDown
  \/ \E req \in page.inflight : FetchResolved(req)
  \/ \E req \in page.inflight : FetchRejected(req)

SpecPage == InitPage /\ [][NextPage]_vars

(***************************************************************************)
(* C30.  On the page, under every interleaving of user actions (select     *)
(* target, change bin size, switch data source, back/Escape) and fetch     *)
(* completions, whenever a visualization is shown (data non-null, loading  *)
(* false, error null) the data is the response to the request issued for   *)
(* the current selectedTarget, dataSource and binSize; a response to a     *)
(* superseded request never overwrites or outlives the latest one, and no  *)
(* data is shown while no target is selected.                              *)
(***************************************************************************)
C30_FreshData ==
  page.pc = "mounted" =>
    /\ Visualization(page) =>
         /\ page.selectedTarget.present
         /\ page.data.target = page.selectedTarget.value
         /\ page.data.source = page.dataSource
         /\ page.data.binSize = page.binSize
         \* the response shown is that of the request made last
         /\ page.data.id = page.issued
    /\ ~page.selectedTarget.present => page.data = NoData

=============================================================================
